---- MODULE Spec2Model ----
(***************************************************************************)
(* Control plane of the orbit orchestrator: the config watcher             *)
(* (src/config/mod.rs: watch_directory, process_event), startup loading    *)
(* (initialize_configs), the service supervisor (stop_service,             *)
(* handle_config_update) and the container side (src/container/mod.rs:     *)
(* manage, clean_up), over the process-wide stores.                        *)
(*                                                                         *)
(* Strings that are built with format! or cut with find/split are modelled *)
(* as sequences of components, so that two keys are equal in the model     *)
(* exactly when the strings are equal in the program.                      *)
(***************************************************************************)
EXTENDS Integers, Sequences, FiniteSets, Bags, TLC

----------------------------------------------------------------------------
(* Bounds of the model                                                     *)

\* manifest files in the watched directory
MaxFiles == 1
\* number of filesystem changes made to the watched directory
MaxFsOps == 2
\* debounced events waiting in the watcher's channel
MaxQueue == 2
\* spawned cleanup tasks (stop_service; clean_up) alive at once
MaxCleanups == 2
\* calls of handle_config_update
MaxUpdates == 1
\* largest instance_count.min of a manifest
MaxMin == 1
\* runtime calls that fail
MaxFailures == 1
\* pods of a service when its stop is checked on its own
MaxStopPods == 2

----------------------------------------------------------------------------
(* Values                                                                  *)

Names == {"A", "B"}

FileNames == <<"a.yaml", "b.yaml", "c.yml">>

Files == { FileNames[i] : i \in 1..MaxFiles }

NodePortOf(n) == IF n = "A" THEN "8080" ELSE "8081"

\* a validated ServiceConfig: only the fields the control plane reads here
Configs == { [name |-> n, min |-> m] : n \in Names, m \in 1..MaxMin }

\* what a manifest file can hold: nothing (no file), bytes that do not
\* parse or validate, or a ServiceConfig
Absent == [name |-> "", min |-> 0]

Bad == [name |-> "?", min |-> 0]

Contents == {Absent, Bad} \cup Configs

\* the directory the operator passes: relative to the working directory, or
\* absolute
ConfigDirs == { <<"configs">>, <<"/", "srv", "configs">> }

Cwd == <<"/", "srv">>

Put(f, k, v) == [x \in (DOMAIN f) \cup {k} |-> IF x = k THEN v ELSE f[x]]

Del(f, k) == [x \in (DOMAIN f) \ {k} |-> f[x]]

Empty == [x \in {} |-> 0]

Max(a, b) == IF a >= b THEN a ELSE b

IsAbsolute(p) == Len(p) > 0 /\ p[1] = "/"

\* the path notify reports for a file of the watched directory: notify
\* resolves a relative watch root against the working directory
EventPath(dir, f) == (IF IsAbsolute(dir) THEN dir ELSE Cwd \o dir) \o <<f>>

\* the path read_dir yields: the directory as given, joined with the name
DirEntryPath(dir, f) == dir \o <<f>>

FileOf(p) == p[Len(p)]

\* str::find: the first position at which needle occurs in hay (0: none)
Find(hay, needle) ==
    LET hits == { i \in 1..(Len(hay) - Len(needle) + 1) :
                     SubSeq(hay, i, i + Len(needle) - 1) = needle }
    IN IF hits = {} THEN 0 ELSE CHOOSE i \in hits : \A j \in hits : i <= j

\* get_relative_config_path: everything of full_path from the first
\* occurrence of config_dir on (<<>> for None: config_dir does not occur)
get_relative_config_path(full_path, dir) ==
    LET pos == Find(full_path, dir)
    IN IF pos = 0 THEN <<>> ELSE SubSeq(full_path, pos, Len(full_path))

\* "{service}_{node_port}"
ProxyKey(s, np) == <<s, "_", np>>

\* "{service}_updater"
UpdaterKey(s) == <<s, "_updater">>

\* a plain service name used as a key
NameKey(s) == <<s>>

\* "{service}__{uuid}": the pod network, which also identifies the pod and
\* its containers towards the runtime
PodNetwork(s, uuid) == <<s, "__", uuid>>

Pod(s, uuid, origin) == [uuid |-> uuid, network |-> PodNetwork(s, uuid), origin |-> origin]

\* where a task or a pod was made: by startup loading, by the watcher
\* handling its seq-th event, or by a config update
Startup == [by |-> "startup", seq |-> 0]

ByEvent(n) == [by |-> "event", seq |-> n]

ByUpdate == [by |-> "update", seq |-> 0]

Handle(kind, s, origin) == [kind |-> kind, svc |-> s, origin |-> origin]

----------------------------------------------------------------------------
VARIABLES
    config_dir,         \* the watched directory, as passed at startup
    fs,                 \* file name -> Contents
    fsOps,              \* filesystem changes made so far
    queue,              \* debounced events in the watcher's channel
    CONFIG_STORE,       \* key -> [path, config]
    INSTANCE_STORE,     \* service name -> set of pods [uuid, network, origin]
    SCALING_TASKS,      \* key -> task handle
    IMAGE_CHECK_TASKS,  \* service name -> task handle
    SERVER_BACKENDS,    \* key -> set of backends (the uuids of the pods)
    CONFIG_UPDATES,     \* messages sent on the channel, in order
    detached,           \* tasks running with no handle in a store (the
                        \* handle was dropped without abort)
    nextUuid,           \* the next fresh pod uuid
    running,            \* pods (by network name) whose containers run
    networks,           \* pod networks that exist in the runtime
    stopCalls,          \* pods on whose containers stop_container was invoked
    netCalls,           \* pod networks remove_pod_network was invoked on
    failures,           \* runtime calls that failed so far
    initTodo,           \* files initialize_configs has not visited yet
    watcher,            \* process_event: position and locals
    cleanups,           \* bag of spawned cleanup tasks [svc, pc, seq]
    updates,            \* bag of handle_config_update calls in progress
    nUpdates,           \* calls of handle_config_update made so far
    containers,         \* names of the containers the runtime lists
    stopped,            \* container names stop_container was invoked on
    assigned,           \* <<service, pod number>> given to a started pod
    calls,              \* manage / handle_orphans calls: position and locals
    CONTAINER_STATS,    \* container name -> StatsEntry of its last sample
    SERVICE_STATS       \* service name -> (container name -> ContainerStats)

stores == <<CONFIG_STORE, INSTANCE_STORE, SCALING_TASKS, IMAGE_CHECK_TASKS,
            SERVER_BACKENDS>>

runtime == <<nextUuid, running, networks, stopCalls, netCalls, failures>>

env == <<config_dir, fs, fsOps, queue>>

\* the state of the detailed runs of manage and handle_orphans
detail == <<containers, stopped, assigned, calls>>

stats == <<CONTAINER_STATS, SERVICE_STATS>>

ext == <<containers, stopped, assigned, calls, CONTAINER_STATS, SERVICE_STATS>>

vars == <<config_dir, fs, fsOps, queue, CONFIG_STORE, INSTANCE_STORE,
          SCALING_TASKS, IMAGE_CHECK_TASKS, SERVER_BACKENDS, CONFIG_UPDATES,
          detached, nextUuid, running, networks, stopCalls, netCalls,
          failures, initTodo, watcher, cleanups, updates, nUpdates,
          containers, stopped, assigned, calls, CONTAINER_STATS, SERVICE_STATS>>

----------------------------------------------------------------------------
(* Helpers shared by the handlers                                          *)

Uuids(pods) == { p.uuid : p \in pods }

Nets(pods) == { p.network : p \in pods }

PodsOf(store, s) == IF s \in DOMAIN store THEN store[s] ELSE {}

\* the runtime names of the containers of a pod, as ContainerMetadata.name
\* holds them: "{service}__{pod_number}__{container}__{uuid}"
PodContainers(s, pods) == { <<s, 0, "web", p.uuid>> : p \in pods }

\* DashMap::remove for each of the keys
DelKeys(f, keys) == [x \in (DOMAIN f) \ keys |-> f[x]]

\* remove_container_stats(service_name, container_name) for each of names:
\* the entries under the names leave CONTAINER_STATS and the service's
\* ServiceStats; the results are the two stores afterwards
remove_container_stats_container(store, names) == DelKeys(store, names)

remove_container_stats_service(store, service_name, names) ==
    IF service_name \in DOMAIN store
    THEN [store EXCEPT ![service_name] = DelKeys(@, names)]
    ELSE store

\* HashMap/DashMap insert: the previous handle, if any, is returned and
\* dropped; dropping a JoinHandle detaches the task, it does not abort it
Dropped(store, k) == IF k \in DOMAIN store THEN {store[k]} ELSE {}

\* path.exists() (&& is_file) of a path of the watched directory
Exists(p) == fs[FileOf(p)] # Absent

\* check_service_name_uniqueness: no loaded config other than the excluded
\* service carries the name
check_service_name_uniqueness(store, name, exclude) ==
    \A k \in DOMAIN store : store[k].config.name = name => exclude = name

\* read_yaml_config: Ok(config) (TRUE) or Err (FALSE) for the bytes of a file
read_yaml_config_ok(store, content, exclude) ==
    /\ content \in Configs
    /\ check_service_name_uniqueness(store, content.name, exclude)

\* manage, entry: the number of pods it will try to start
manage_todo(store, s, config) == Max(0, config.min - Cardinality(PodsOf(store, s)))

\* manage, one pod started: the entry of the service with the pod added
manage_insert(store, s, pod) == Put(store, s, PodsOf(store, s) \cup {pod})

\* proxy::run_proxy_for_service: a backend per pod under the service's
\* node_port key
run_proxy_for_service(backends, store, s) ==
    LET k == ProxyKey(s, NodePortOf(s))
    IN IF PodsOf(store, s) = {} THEN backends
       ELSE Put(backends, k,
                (IF k \in DOMAIN backends THEN backends[k] ELSE {})
                    \cup Uuids(PodsOf(store, s)))

----------------------------------------------------------------------------
(* Initial state: the process has built its empty stores, the watched      *)
(* directory holds any manifests, the runtime holds no container of theirs *)

\* no detailed run of manage or handle_orphans is followed
NoStats == CONTAINER_STATS = Empty /\ SERVICE_STATS = Empty

NoExt == containers = {} /\ stopped = {} /\ assigned = {} /\ calls = Empty /\ NoStats

WatcherIdle ==
    [pc |-> "idle", kind |-> "", path |-> <<>>, seq |-> 0,
     existing |-> "", config |-> Absent, todo |-> 0, result |-> ""]

Init ==
    /\ config_dir \in ConfigDirs
    /\ fs \in [Files -> Contents]
    /\ fsOps = 0
    /\ queue = <<>>
    /\ CONFIG_STORE = Empty
    /\ INSTANCE_STORE = Empty
    /\ SCALING_TASKS = Empty
    /\ IMAGE_CHECK_TASKS = Empty
    /\ SERVER_BACKENDS = Empty
    /\ CONFIG_UPDATES = <<>>
    /\ detached = {}
    /\ nextUuid = 1
    /\ running = {}
    /\ networks = {}
    /\ stopCalls = {}
    /\ netCalls = {}
    /\ failures = 0
    /\ initTodo = Files
    /\ watcher = WatcherIdle
    /\ cleanups = EmptyBag
    /\ updates = EmptyBag
    /\ nUpdates = 0
    /\ NoExt

----------------------------------------------------------------------------
(* The watched directory and the debouncer (watch_directory's callback)    *)

Event(kind, f) == [kind |-> kind, path |-> EventPath(config_dir, f)]

\* a manifest is written: a Create event for a new file, a Modify event
\* for an existing one
WriteFile(f, c) ==
    /\ initTodo = {}
    /\ fsOps < MaxFsOps
    /\ Len(queue) < MaxQueue
    /\ fs' = [fs EXCEPT ![f] = c]
    /\ fsOps' = fsOps + 1
    /\ queue' = Append(queue, Event(IF fs[f] = Absent THEN "Create" ELSE "Modify", f))
    /\ UNCHANGED <<ext, config_dir, stores, CONFIG_UPDATES, detached, runtime,
                   initTodo, watcher, cleanups, updates, nUpdates>>

\* a manifest is deleted: a Remove event, unless the event is missed
DeleteFile(f, seen) ==
    /\ initTodo = {}
    /\ fsOps < MaxFsOps
    /\ Len(queue) < MaxQueue
    /\ fs[f] # Absent
    /\ fs' = [fs EXCEPT ![f] = Absent]
    /\ fsOps' = fsOps + 1
    /\ queue' = IF seen THEN Append(queue, Event("Remove", f)) ELSE queue
    /\ UNCHANGED <<ext, config_dir, stores, CONFIG_UPDATES, detached, runtime,
                   initTodo, watcher, cleanups, updates, nUpdates>>

----------------------------------------------------------------------------
(* Startup: initialize_configs, one directory entry per step, before the   *)
(* watcher takes its first event                                           *)

\* the pods manage starts when every start_containers call succeeds
FreshPods(s, n, origin) ==
    { Pod(s, u, origin) : u \in nextUuid..(nextUuid + n - 1) }

initialize_configs_entry(f, nfail) ==
    LET path == DirEntryPath(config_dir, f)
        config == fs[f]
        s == config.name
        n == manage_todo(INSTANCE_STORE, s, config) - nfail
        pods == FreshPods(s, n, Startup)
        instances == IF n = 0 THEN INSTANCE_STORE
                     ELSE Put(INSTANCE_STORE, s, PodsOf(INSTANCE_STORE, s) \cup pods)
    IN
    /\ f \in initTodo
    /\ initTodo' = initTodo \ {f}
    /\ IF read_yaml_config_ok(CONFIG_STORE, config, "")
       THEN /\ n >= 0
            /\ failures + nfail <= MaxFailures
            /\ failures' = failures + nfail
            /\ CONFIG_STORE' = Put(CONFIG_STORE, path, [path |-> path, config |-> config])
            \* handle_orphans: list_containers finds no container, Ok(())
            \* container::manage
            /\ INSTANCE_STORE' = instances
            /\ nextUuid' = nextUuid + n
            /\ running' = running \cup Nets(pods)
            /\ networks' = networks \cup Nets(pods)
            /\ SERVER_BACKENDS' = run_proxy_for_service(SERVER_BACKENDS, instances, s)
            \* the two spawns; both inserts drop any previous handle
            /\ SCALING_TASKS' = Put(SCALING_TASKS, NameKey(s), Handle("auto_scale", s, Startup))
            /\ IMAGE_CHECK_TASKS' = Put(IMAGE_CHECK_TASKS, s, Handle("image_check", s, Startup))
            /\ detached' = detached \cup Dropped(SCALING_TASKS, NameKey(s))
                                    \cup Dropped(IMAGE_CHECK_TASKS, s)
       ELSE /\ nfail = 0
            /\ UNCHANGED <<stores, detached, nextUuid, running, networks, failures>>
    /\ UNCHANGED <<ext, env, CONFIG_UPDATES, stopCalls, netCalls,
                   watcher, cleanups, updates, nUpdates>>

----------------------------------------------------------------------------
(* The watcher: process_event, for an event with one path.  Each action is *)
(* a stretch of the handler between two points where it awaits the runtime *)

Spawn(bag, s, seq) == bag (+) SetToBag({[svc |-> s, pc |-> "stop_tasks", seq |-> seq]})

\* process_event_read, except that a rejected manifest evicts the config
\* stored for its path
process_event_read_evicts ==
    LET ev == Head(queue)
        rel == get_relative_config_path(ev.path, config_dir)
        existing == IF ev.kind = "Modify" /\ rel \in DOMAIN CONFIG_STORE
                    THEN CONFIG_STORE[rel].config.name ELSE ""
        content == fs[FileOf(ev.path)]
        w == [WatcherIdle EXCEPT !.kind = ev.kind, !.path = ev.path,
                                 !.seq = watcher.seq + 1, !.pc = "sweep"]
        rejected == Exists(ev.path) /\ ~read_yaml_config_ok(CONFIG_STORE, content, existing)
    IN
    /\ initTodo = {}
    /\ watcher.pc = "idle"
    /\ queue # <<>>
    /\ ev.kind \in {"Create", "Modify"}
    /\ queue' = Tail(queue)
    /\ watcher' = IF ~Exists(ev.path) THEN [w EXCEPT !.result = "nofile"]
                  ELSE IF rejected
                       THEN [w EXCEPT !.result = "err", !.existing = existing]
                       ELSE [w EXCEPT !.result = "ok", !.existing = existing,
                                      !.config = content, !.pc = "store"]
    /\ CONFIG_STORE' = IF rejected THEN Del(CONFIG_STORE, rel) ELSE CONFIG_STORE
    /\ UNCHANGED <<ext, config_dir, fs, fsOps, INSTANCE_STORE, SCALING_TASKS,
                   IMAGE_CHECK_TASKS, SERVER_BACKENDS, CONFIG_UPDATES, detached,
                   runtime, initTodo, cleanups, updates, nUpdates>>

\* Create | Modify, up to the result of read_yaml_config
process_event_read ==
    LET ev == Head(queue)
        rel == get_relative_config_path(ev.path, config_dir)
        existing == IF ev.kind = "Modify" /\ rel \in DOMAIN CONFIG_STORE
                    THEN CONFIG_STORE[rel].config.name ELSE ""
        content == fs[FileOf(ev.path)]
        w == [WatcherIdle EXCEPT !.kind = ev.kind, !.path = ev.path,
                                 !.seq = watcher.seq + 1, !.pc = "sweep"]
    IN
    /\ initTodo = {}
    /\ watcher.pc = "idle"
    /\ queue # <<>>
    /\ ev.kind \in {"Create", "Modify"}
    /\ queue' = Tail(queue)
    /\ watcher' = IF ~Exists(ev.path) THEN [w EXCEPT !.result = "nofile"]
                  ELSE IF ~read_yaml_config_ok(CONFIG_STORE, content, existing)
                       THEN [w EXCEPT !.result = "err", !.existing = existing]
                       ELSE [w EXCEPT !.result = "ok", !.existing = existing,
                                      !.config = content, !.pc = "store"]
    /\ UNCHANGED <<ext, config_dir, fs, fsOps, stores, CONFIG_UPDATES, detached,
                   runtime, initTodo, cleanups, updates, nUpdates>>

\* the config is stored, the service's scaling task aborted, manage entered
process_event_store ==
    LET s == watcher.config.name
        rel == get_relative_config_path(watcher.path, config_dir)
    IN
    /\ watcher.pc = "store"
    /\ CONFIG_STORE' = Put(CONFIG_STORE, rel,
                           [path |-> watcher.path, config |-> watcher.config])
    /\ SCALING_TASKS' = Del(SCALING_TASKS, NameKey(s))
    /\ watcher' = [watcher EXCEPT !.pc = "manage",
                      !.todo = manage_todo(INSTANCE_STORE, s, watcher.config)]
    /\ UNCHANGED <<ext, env, INSTANCE_STORE, IMAGE_CHECK_TASKS, SERVER_BACKENDS,
                   CONFIG_UPDATES, detached, runtime, initTodo, cleanups,
                   updates, nUpdates>>

\* manage, one turn of its loop: start_containers succeeds (ok) or fails
manage_pod(s, origin, ok) ==
    LET pod == Pod(s, nextUuid, origin)
    IN IF ok
       THEN /\ INSTANCE_STORE' = manage_insert(INSTANCE_STORE, s, pod)
            /\ nextUuid' = nextUuid + 1
            /\ running' = running \cup {pod.network}
            /\ networks' = networks \cup {pod.network}
            /\ UNCHANGED failures
       ELSE /\ failures < MaxFailures
            /\ failures' = failures + 1
            /\ UNCHANGED <<INSTANCE_STORE, nextUuid, running, networks>>

process_event_manage(ok) ==
    /\ watcher.pc = "manage"
    /\ watcher.todo > 0
    /\ manage_pod(watcher.config.name, ByEvent(watcher.seq), ok)
    /\ watcher' = [watcher EXCEPT !.todo = watcher.todo - 1]
    /\ UNCHANGED <<ext, env, CONFIG_STORE, SCALING_TASKS, IMAGE_CHECK_TASKS,
                   SERVER_BACKENDS, CONFIG_UPDATES, detached, stopCalls,
                   netCalls, initTodo, cleanups, updates, nUpdates>>

\* the proxy is told, the new scaling task spawned and its handle stored
process_event_spawn ==
    LET s == watcher.config.name
    IN
    /\ watcher.pc = "manage"
    /\ watcher.todo = 0
    /\ SERVER_BACKENDS' = run_proxy_for_service(SERVER_BACKENDS, INSTANCE_STORE, s)
    /\ SCALING_TASKS' = Put(SCALING_TASKS, NameKey(s),
                            Handle("auto_scale", s, ByEvent(watcher.seq)))
    /\ detached' = detached \cup Dropped(SCALING_TASKS, NameKey(s))
    /\ watcher' = [watcher EXCEPT !.pc = "sweep"]
    /\ UNCHANGED <<ext, env, CONFIG_STORE, INSTANCE_STORE, IMAGE_CHECK_TASKS,
                   CONFIG_UPDATES, runtime, initTodo, cleanups, updates, nUpdates>>

\* Remove: the lookup under path.display(), and what follows a hit
process_event_remove ==
    LET ev == Head(queue)
        key == ev.path
        found == key \in DOMAIN CONFIG_STORE
        s == CONFIG_STORE[key].config.name
        w == [WatcherIdle EXCEPT !.kind = ev.kind, !.path = ev.path,
                                 !.seq = watcher.seq + 1, !.pc = "sweep"]
    IN
    /\ initTodo = {}
    /\ watcher.pc = "idle"
    /\ queue # <<>>
    /\ ev.kind = "Remove"
    /\ queue' = Tail(queue)
    /\ IF found
       THEN /\ BagCardinality(cleanups) < MaxCleanups
            /\ CONFIG_STORE' = Del(CONFIG_STORE, key)
            /\ SCALING_TASKS' = Del(SCALING_TASKS, NameKey(s))
            /\ cleanups' = Spawn(cleanups, s, watcher.seq + 1)
            /\ watcher' = [w EXCEPT !.result = "ok", !.existing = s]
       ELSE /\ watcher' = [w EXCEPT !.result = "miss"]
            /\ UNCHANGED <<CONFIG_STORE, SCALING_TASKS, cleanups>>
    /\ UNCHANGED <<ext, config_dir, fs, fsOps, INSTANCE_STORE, IMAGE_CHECK_TASKS,
                   SERVER_BACKENDS, CONFIG_UPDATES, detached, runtime,
                   initTodo, updates, nUpdates>>

\* the entries the sweep finds without a manifest file (every stored path
\* has a yml/yaml extension: read_yaml_config accepts no other)
services_to_cleanup(store) ==
    { [path |-> store[k].path, name |-> store[k].config.name] :
        k \in { x \in DOMAIN store : ~Exists(store[x].path) } }

RECURSIVE DelAll(_, _)
DelAll(f, keys) ==
    IF keys = {} THEN f
    ELSE LET k == CHOOSE x \in keys : TRUE IN DelAll(Del(f, k), keys \ {k})

RECURSIVE SpawnAll(_, _, _)
SpawnAll(bag, ss, seq) ==
    IF ss = {} THEN bag
    ELSE LET e == CHOOSE x \in ss : TRUE
         IN SpawnAll(Spawn(bag, e.name, seq), ss \ {e}, seq)

\* the sweep after the event: each entry found is removed under
\* path.display(), its scaling task aborted, its cleanup spawned
process_event_sweep ==
    LET found == services_to_cleanup(CONFIG_STORE)
    IN
    /\ watcher.pc = "sweep"
    /\ BagCardinality(cleanups) + Cardinality(found) <= MaxCleanups
    /\ CONFIG_STORE' = DelAll(CONFIG_STORE, { e.path : e \in found })
    /\ SCALING_TASKS' = DelAll(SCALING_TASKS, { NameKey(e.name) : e \in found })
    /\ cleanups' = SpawnAll(cleanups, found, watcher.seq)
    /\ watcher' = [WatcherIdle EXCEPT !.seq = watcher.seq]
    /\ UNCHANGED <<ext, env, INSTANCE_STORE, IMAGE_CHECK_TASKS, SERVER_BACKENDS,
                   CONFIG_UPDATES, detached, runtime, initTodo, updates, nUpdates>>

----------------------------------------------------------------------------
(* A spawned cleanup task: stop_service(s) and then clean_up(s)            *)

Step(bag, c, pc) == (bag (-) SetToBag({c})) (+) SetToBag({[c EXCEPT !.pc = pc]})

\* stop_service: the scaling, updater and image-check handles are removed
\* and aborted, and the service's key is removed from the backends
stop_service_tasks(c) ==
    /\ c.pc = "stop_tasks"
    /\ SCALING_TASKS' = Del(Del(SCALING_TASKS, NameKey(c.svc)), UpdaterKey(c.svc))
    /\ IMAGE_CHECK_TASKS' = Del(IMAGE_CHECK_TASKS, c.svc)
    /\ SERVER_BACKENDS' = Del(SERVER_BACKENDS, NameKey(c.svc))
    /\ cleanups' = Step(cleanups, c, "stop_instances")
    /\ UNCHANGED <<ext, env, CONFIG_STORE, INSTANCE_STORE, CONFIG_UPDATES, detached,
                   runtime, initTodo, watcher, updates, nUpdates>>

\* stop_service_instances, except that the network of a pod is left alone
\* when stopping its containers failed
stop_service_instances_skips_network(c, failStop, failNet) ==
    LET pods == Nets(PodsOf(INSTANCE_STORE, c.svc))
        n == Cardinality(failStop) + Cardinality(failNet)
    IN
    /\ c.pc = "stop_instances"
    /\ failStop \subseteq pods
    /\ failNet \subseteq pods
    /\ failures + n <= MaxFailures
    /\ failures' = failures + n
    /\ INSTANCE_STORE' = Del(INSTANCE_STORE, c.svc)
    /\ stopCalls' = stopCalls \cup pods
    /\ running' = running \ (pods \ failStop)
    /\ netCalls' = netCalls \cup (pods \ failStop)
    /\ networks' = networks \ (pods \ (failStop \cup failNet))
    \* remove_container_stats is given "{service}__{uuid}" as the name
    /\ CONTAINER_STATS' = remove_container_stats_container(CONTAINER_STATS, pods)
    /\ SERVICE_STATS' = remove_container_stats_service(SERVICE_STATS, c.svc, pods)
    /\ cleanups' = Step(cleanups, c, "clean_tasks")
    /\ UNCHANGED <<detail, env, CONFIG_STORE, SCALING_TASKS, IMAGE_CHECK_TASKS,
                   SERVER_BACKENDS, CONFIG_UPDATES, detached, nextUuid,
                   initTodo, watcher, updates, nUpdates>>

\* stop_service_instances, except that the service's entry is read and
\* left in INSTANCE_STORE
stop_service_instances_keeps_entry(c, failStop, failNet) ==
    LET pods == Nets(PodsOf(INSTANCE_STORE, c.svc))
        n == Cardinality(failStop) + Cardinality(failNet)
    IN
    /\ c.pc = "stop_instances"
    /\ failStop \subseteq pods
    /\ failNet \subseteq pods
    /\ failures + n <= MaxFailures
    /\ failures' = failures + n
    /\ stopCalls' = stopCalls \cup pods
    /\ running' = running \ (pods \ failStop)
    /\ netCalls' = netCalls \cup pods
    /\ networks' = networks \ (pods \ failNet)
    /\ CONTAINER_STATS' = remove_container_stats_container(CONTAINER_STATS, pods)
    /\ SERVICE_STATS' = remove_container_stats_service(SERVICE_STATS, c.svc, pods)
    /\ cleanups' = Step(cleanups, c, "clean_tasks")
    /\ UNCHANGED <<detail, env, CONFIG_STORE, INSTANCE_STORE, SCALING_TASKS,
                   IMAGE_CHECK_TASKS, SERVER_BACKENDS, CONFIG_UPDATES, detached,
                   nextUuid, initTodo, watcher, updates, nUpdates>>

\* stop_service_instances, except that it returns at the first runtime
\* call that fails
stop_service_instances_gives_up(c, failStop, failNet) ==
    LET pods == Nets(PodsOf(INSTANCE_STORE, c.svc))
        n == Cardinality(failStop) + Cardinality(failNet)
        reached == IF failStop \cup failNet = {} THEN pods ELSE failStop \cup failNet
    IN
    /\ c.pc = "stop_instances"
    /\ failStop \subseteq pods
    /\ failNet \subseteq pods
    /\ failures + n <= MaxFailures
    /\ failures' = failures + n
    /\ INSTANCE_STORE' = Del(INSTANCE_STORE, c.svc)
    /\ stopCalls' = stopCalls \cup reached
    /\ running' = running \ (reached \ failStop)
    /\ netCalls' = netCalls \cup (reached \ failStop)
    /\ networks' = networks \ (reached \ (failStop \cup failNet))
    /\ CONTAINER_STATS' = remove_container_stats_container(CONTAINER_STATS, pods)
    /\ SERVICE_STATS' = remove_container_stats_service(SERVICE_STATS, c.svc, pods)
    /\ cleanups' = Step(cleanups, c, "clean_tasks")
    /\ UNCHANGED <<detail, env, CONFIG_STORE, SCALING_TASKS, IMAGE_CHECK_TASKS,
                   SERVER_BACKENDS, CONFIG_UPDATES, detached, nextUuid,
                   initTodo, watcher, updates, nUpdates>>

\* stop_service: the service's entry is taken out of INSTANCE_STORE; each
\* pod's containers are stopped and its network removed.  failStop and
\* failNet are the pods for which the runtime call returns an error
stop_service_instances(c, failStop, failNet) ==
    LET pods == Nets(PodsOf(INSTANCE_STORE, c.svc))
        n == Cardinality(failStop) + Cardinality(failNet)
    IN
    /\ c.pc = "stop_instances"
    /\ failStop \subseteq pods
    /\ failNet \subseteq pods
    /\ failures + n <= MaxFailures
    /\ failures' = failures + n
    /\ INSTANCE_STORE' = Del(INSTANCE_STORE, c.svc)
    /\ stopCalls' = stopCalls \cup pods
    /\ running' = running \ (pods \ failStop)
    /\ netCalls' = netCalls \cup pods
    /\ networks' = networks \ (pods \ failNet)
    \* remove_container_stats is given "{service}__{uuid}" as the name
    /\ CONTAINER_STATS' = remove_container_stats_container(CONTAINER_STATS, pods)
    /\ SERVICE_STATS' = remove_container_stats_service(SERVICE_STATS, c.svc, pods)
    /\ cleanups' = Step(cleanups, c, "clean_tasks")
    /\ UNCHANGED <<detail, env, CONFIG_STORE, SCALING_TASKS, IMAGE_CHECK_TASKS,
                   SERVER_BACKENDS, CONFIG_UPDATES, detached, nextUuid,
                   initTodo, watcher, updates, nUpdates>>

\* clean_up: the scaling handle is removed and aborted
clean_up_tasks(c) ==
    /\ c.pc = "clean_tasks"
    /\ SCALING_TASKS' = Del(SCALING_TASKS, NameKey(c.svc))
    /\ cleanups' = Step(cleanups, c, "clean_instances")
    /\ UNCHANGED <<ext, env, CONFIG_STORE, INSTANCE_STORE, IMAGE_CHECK_TASKS,
                   SERVER_BACKENDS, CONFIG_UPDATES, detached, runtime,
                   initTodo, watcher, updates, nUpdates>>

\* clean_up: for the pods of the entry it takes out of INSTANCE_STORE (if
\* there is one), the backend is removed from the set under
\* "{service}_{node_port}" and the containers are stopped; the task ends
clean_up_instances(c, failStop) ==
    LET pods == PodsOf(INSTANCE_STORE, c.svc)
        key == ProxyKey(c.svc, NodePortOf(c.svc))
    IN
    /\ c.pc = "clean_instances"
    /\ failStop \subseteq Nets(pods)
    /\ failures + Cardinality(failStop) <= MaxFailures
    /\ failures' = failures + Cardinality(failStop)
    /\ INSTANCE_STORE' = Del(INSTANCE_STORE, c.svc)
    /\ SERVER_BACKENDS' = IF key \in DOMAIN SERVER_BACKENDS
                          THEN [SERVER_BACKENDS EXCEPT ![key] = @ \ Uuids(pods)]
                          ELSE SERVER_BACKENDS
    /\ stopCalls' = stopCalls \cup Nets(pods)
    /\ running' = running \ (Nets(pods) \ failStop)
    \* inside `if let Some(..) = instance_store.remove(service_name)`:
    \* remove_container_stats for each container, then the service's stats
    /\ CONTAINER_STATS' =
          remove_container_stats_container(CONTAINER_STATS, PodContainers(c.svc, pods))
    /\ SERVICE_STATS' = IF c.svc \in DOMAIN INSTANCE_STORE
                        THEN Del(SERVICE_STATS, c.svc) ELSE SERVICE_STATS
    /\ cleanups' = cleanups (-) SetToBag({c})
    /\ UNCHANGED <<detail, env, CONFIG_STORE, SCALING_TASKS, IMAGE_CHECK_TASKS,
                   CONFIG_UPDATES, detached, nextUuid, networks, netCalls,
                   initTodo, watcher, updates, nUpdates>>

----------------------------------------------------------------------------
(* handle_config_update(service_name, config), called by the API           *)

StepUpdate(bag, u, v) == (bag (-) SetToBag({u})) (+) SetToBag({v})

\* handle_config_update_call, except that a service with a scaling task is
\* sent ConfigUpdate before the new config is validated
handle_config_update_call_signals_first(s, config) ==
    LET valid == /\ config \in Configs
                 /\ (s # config.name =>
                        check_service_name_uniqueness(CONFIG_STORE, config.name, s))
        is_new == NameKey(s) \notin DOMAIN SCALING_TASKS
        u == [svc |-> s, config |-> config, pc |-> "store",
              is_new_service |-> is_new, todo |-> 0]
    IN
    /\ initTodo = {}
    /\ nUpdates < MaxUpdates
    /\ nUpdates' = nUpdates + 1
    /\ ~is_new
    /\ CONFIG_UPDATES' = Append(CONFIG_UPDATES, <<s, "ConfigUpdate">>)
    /\ updates' = IF valid THEN updates (+) SetToBag({u}) ELSE updates
    /\ UNCHANGED <<ext, env, stores, detached, runtime, initTodo, watcher, cleanups>>

\* the validation and the look for an existing scaling task
handle_config_update_call(s, config) ==
    LET valid == /\ config \in Configs
                 /\ (s # config.name =>
                        check_service_name_uniqueness(CONFIG_STORE, config.name, s))
        is_new == NameKey(s) \notin DOMAIN SCALING_TASKS
        u == [svc |-> s, config |-> config, pc |-> "signal",
              is_new_service |-> is_new, todo |-> 0]
    IN
    /\ initTodo = {}
    /\ nUpdates < MaxUpdates
    /\ nUpdates' = nUpdates + 1
    /\ updates' = IF valid THEN updates (+) SetToBag({u}) ELSE updates
    /\ UNCHANGED <<ext, env, stores, CONFIG_UPDATES, detached, runtime, initTodo,
                   watcher, cleanups>>

\* a new service gets a scaling task; an existing one is sent ConfigUpdate
handle_config_update_signal(u) ==
    /\ u.pc = "signal"
    /\ IF u.is_new_service
       THEN /\ SCALING_TASKS' = Put(SCALING_TASKS, NameKey(u.svc),
                                    Handle("auto_scale", u.svc, ByUpdate))
            /\ detached' = detached \cup Dropped(SCALING_TASKS, NameKey(u.svc))
            /\ UNCHANGED CONFIG_UPDATES
       ELSE /\ CONFIG_UPDATES' = Append(CONFIG_UPDATES, <<u.svc, "ConfigUpdate">>)
            /\ UNCHANGED <<SCALING_TASKS, detached>>
    /\ updates' = StepUpdate(updates, u, [u EXCEPT !.pc = "store"])
    /\ UNCHANGED <<ext, env, CONFIG_STORE, INSTANCE_STORE, IMAGE_CHECK_TASKS,
                   SERVER_BACKENDS, runtime, initTodo, watcher, cleanups, nUpdates>>

\* the first entry of CONFIG_STORE that carries the service's name gets the
\* new config (the map's iteration order picks it); manage is entered
handle_config_update_store(u) ==
    LET hits == { k \in DOMAIN CONFIG_STORE : CONFIG_STORE[k].config.name = u.svc }
    IN
    /\ u.pc = "store"
    /\ IF hits = {} THEN UNCHANGED CONFIG_STORE
       ELSE \E k \in hits :
              CONFIG_STORE' = [CONFIG_STORE EXCEPT ![k].config = u.config]
    /\ updates' = StepUpdate(updates, u,
                    [u EXCEPT !.pc = "manage",
                              !.todo = manage_todo(INSTANCE_STORE, u.svc, u.config)])
    /\ UNCHANGED <<ext, env, INSTANCE_STORE, SCALING_TASKS, IMAGE_CHECK_TASKS,
                   SERVER_BACKENDS, CONFIG_UPDATES, detached, runtime,
                   initTodo, watcher, cleanups, nUpdates>>

handle_config_update_manage(u, ok) ==
    /\ u.pc = "manage"
    /\ u.todo > 0
    /\ manage_pod(u.svc, ByUpdate, ok)
    /\ updates' = StepUpdate(updates, u, [u EXCEPT !.todo = u.todo - 1])
    /\ UNCHANGED <<ext, env, CONFIG_STORE, SCALING_TASKS, IMAGE_CHECK_TASKS,
                   SERVER_BACKENDS, CONFIG_UPDATES, detached, stopCalls,
                   netCalls, initTodo, watcher, cleanups, nUpdates>>

\* the proxy is told; an existing service is sent Resume; Ok(())
handle_config_update_finish(u) ==
    /\ u.pc = "manage"
    /\ u.todo = 0
    /\ SERVER_BACKENDS' = run_proxy_for_service(SERVER_BACKENDS, INSTANCE_STORE, u.svc)
    /\ CONFIG_UPDATES' = IF u.is_new_service THEN CONFIG_UPDATES
                         ELSE Append(CONFIG_UPDATES, <<u.svc, "Resume">>)
    /\ updates' = updates (-) SetToBag({u})
    /\ UNCHANGED <<ext, env, CONFIG_STORE, INSTANCE_STORE, SCALING_TASKS,
                   IMAGE_CHECK_TASKS, detached, runtime, initTodo, watcher,
                   cleanups, nUpdates>>

----------------------------------------------------------------------------
(* The system                                                              *)

Environment ==
    \/ \E f \in Files, c \in Contents \ {Absent} : WriteFile(f, c)
    \/ \E f \in Files, seen \in BOOLEAN : DeleteFile(f, seen)

initialize_configs == \E f \in Files, nfail \in 0..MaxFailures : initialize_configs_entry(f, nfail)

process_event ==
    \/ process_event_read
    \/ process_event_store
    \/ \E ok \in BOOLEAN : process_event_manage(ok)
    \/ process_event_spawn
    \/ process_event_remove
    \/ process_event_sweep

Cleanup ==
    \/ \E c \in BagToSet(cleanups) : stop_service_tasks(c)
    \/ \E c \in BagToSet(cleanups) :
          \E fs1 \in SUBSET Nets(PodsOf(INSTANCE_STORE, c.svc)) :
             \E fs2 \in SUBSET Nets(PodsOf(INSTANCE_STORE, c.svc)) :
                stop_service_instances(c, fs1, fs2)
    \/ \E c \in BagToSet(cleanups) : clean_up_tasks(c)
    \/ \E c \in BagToSet(cleanups) :
          \E fs1 \in SUBSET Nets(PodsOf(INSTANCE_STORE, c.svc)) :
              clean_up_instances(c, fs1)

handle_config_update ==
    \/ \E s \in Names, config \in Configs \cup {Bad} : handle_config_update_call(s, config)
    \/ \E u \in BagToSet(updates) : handle_config_update_signal(u)
    \/ \E u \in BagToSet(updates) : handle_config_update_store(u)
    \/ \E u \in BagToSet(updates), ok \in BOOLEAN : handle_config_update_manage(u, ok)
    \/ \E u \in BagToSet(updates) : handle_config_update_finish(u)

Next ==
    \/ Environment
    \/ initialize_configs
    \/ process_event
    \/ Cleanup
    \/ handle_config_update

Spec == Init /\ [][Next]_vars

\* the steps of the calls of handle_config_update that are under way
handle_config_update_run ==
    \/ \E u \in BagToSet(updates) : handle_config_update_signal(u)
    \/ \E u \in BagToSet(updates) : handle_config_update_store(u)
    \/ \E u \in BagToSet(updates), ok \in BOOLEAN : handle_config_update_manage(u, ok)
    \/ \E u \in BagToSet(updates) : handle_config_update_finish(u)

\* Runtime calls return and the tokio scheduler runs every task that can
\* run: the watcher loop, the spawned cleanups and the calls under way.
\* The file system and the callers of the API are free to stay silent.
Fairness ==
    /\ WF_vars(initialize_configs)
    /\ WF_vars(process_event)
    /\ WF_vars(Cleanup)
    /\ WF_vars(handle_config_update_run)

SpecLive == Spec /\ Fairness

----------------------------------------------------------------------------
(* Calls of handle_config_update on their own: after startup, with service *)
(* "A" loaded from the first manifest or not, and with one call already    *)
(* past its validation or not                                              *)

UpdateIdle(s, config, is_new) ==
    [svc |-> s, config |-> config, pc |-> "signal", is_new_service |-> is_new,
     todo |-> 0]

InitUpdates ==
    \E dir \in ConfigDirs, started \in BOOLEAN, under_way \in BOOLEAN,
       s \in Names, config \in Configs :
        LET path == DirEntryPath(dir, FileNames[1])
            loaded == [name |-> "A", min |-> 1]
            pods == { Pod("A", 1, Startup) }
            instances == [x \in {"A"} |-> pods]
        IN
        /\ config_dir = dir
        /\ fs = [f \in Files |-> IF started THEN loaded ELSE Absent]
        /\ fsOps = MaxFsOps
        /\ queue = <<>>
        /\ CONFIG_STORE = IF started
                          THEN Put(Empty, path, [path |-> path, config |-> loaded])
                          ELSE Empty
        /\ INSTANCE_STORE = IF started THEN instances ELSE Empty
        /\ SCALING_TASKS = IF started
                           THEN Put(Empty, NameKey("A"), Handle("auto_scale", "A", Startup))
                           ELSE Empty
        /\ IMAGE_CHECK_TASKS = IF started
                               THEN Put(Empty, "A", Handle("image_check", "A", Startup))
                               ELSE Empty
        /\ SERVER_BACKENDS = IF started
                             THEN run_proxy_for_service(Empty, instances, "A")
                             ELSE Empty
        /\ CONFIG_UPDATES = <<>>
        /\ detached = {}
        /\ nextUuid = IF started THEN 2 ELSE 1
        /\ running = IF started THEN Nets(pods) ELSE {}
        /\ networks = IF started THEN Nets(pods) ELSE {}
        /\ stopCalls = {}
        /\ netCalls = {}
        /\ failures = 0
        /\ initTodo = {}
        /\ watcher = WatcherIdle
        /\ cleanups = EmptyBag
        /\ updates = IF under_way /\ (s # config.name =>
                                          check_service_name_uniqueness(
                                             IF started
                                             THEN Put(Empty, path, [path |-> path, config |-> loaded])
                                             ELSE Empty, config.name, s))
                     THEN SetToBag({UpdateIdle(s, config, ~(started /\ s = "A"))})
                     ELSE EmptyBag
        /\ nUpdates = 0
        /\ NoExt

SpecUpdates == InitUpdates /\ [][handle_config_update]_vars

----------------------------------------------------------------------------
(* One service stop on its own: stop_service(s); clean_up(s) run from any  *)
(* state of the stores and the runtime in which every stored pod runs      *)

StopPods(s, from, n) == { Pod(s, u, Startup) : u \in (from + 1)..(from + n) }

\* runs: the cleanup tasks spawned for the service
InitStopWith(runs) ==
    \E s \in Names, nA \in 0..MaxStopPods, nB \in 0..MaxStopPods,
       scaling \in SUBSET Names, updater \in SUBSET Names,
       image \in SUBSET Names, proxied \in SUBSET Names, sampled \in BOOLEAN :
        LET pods == [x \in Names |-> IF x = "A" THEN StopPods(x, 0, nA)
                                     ELSE StopPods(x, nA, nB)]
            all == UNION { pods[x] : x \in Names }
        IN
        /\ config_dir = <<"configs">>
        /\ fs = [f \in Files |-> Absent]
        /\ fsOps = MaxFsOps
        /\ queue = <<>>
        /\ CONFIG_STORE = Empty
        /\ INSTANCE_STORE = [x \in { y \in Names : pods[y] # {} } |-> pods[x]]
        /\ SCALING_TASKS =
             [k \in { NameKey(x) : x \in scaling } \cup { UpdaterKey(x) : x \in updater }
                |-> Handle(IF Len(k) = 1 THEN "auto_scale" ELSE "updater", k[1], Startup)]
        /\ IMAGE_CHECK_TASKS = [x \in image |-> Handle("image_check", x, Startup)]
        /\ SERVER_BACKENDS =
             [k \in { ProxyKey(x, NodePortOf(x)) : x \in { y \in proxied : pods[y] # {} } }
                |-> Uuids(pods[k[1]])]
        /\ CONFIG_UPDATES = <<>>
        /\ detached = {}
        /\ nextUuid = nA + nB + 1
        /\ running = Nets(all)
        /\ networks = Nets(all)
        /\ stopCalls = {}
        /\ netCalls = {}
        /\ failures = 0
        /\ initTodo = {}
        /\ watcher = WatcherIdle
        /\ cleanups = SetToBag({ [svc |-> s, pc |-> "stop_tasks", seq |-> k] :
                                   k \in 0..(runs - 1) })
        /\ updates = EmptyBag
        /\ nUpdates = MaxUpdates
        /\ containers = {}
        /\ stopped = {}
        /\ assigned = {}
        /\ calls = Empty
        \* the stats sampler has sampled every container, or none yet
        /\ CONTAINER_STATS =
             [n \in (IF sampled THEN UNION { PodContainers(x, pods[x]) : x \in Names } ELSE {})
                |-> [cpu_total_usage |-> 0, system_cpu_usage |-> 0]]
        /\ SERVICE_STATS =
             [x \in (IF sampled THEN { y \in Names : pods[y] # {} } ELSE {})
                |-> [n \in PodContainers(x, pods[x]) |-> [cpu_percentage |-> 0]]]

InitStop == InitStopWith(1)

SpecStop == InitStop /\ [][Cleanup]_vars

\* the Remove branch and the sweep of one process_event, or two sweeps,
\* have each spawned a cleanup task for the service
InitStopTwice == InitStopWith(2)

SpecStopTwice == InitStopTwice /\ [][Cleanup]_vars

----------------------------------------------------------------------------
(* manage in detail: pod numbers, uuids and container names.  Here the     *)
(* entry of a service in INSTANCE_STORE is the map uuid -> InstanceMetadata *)

\* concurrent calls of manage for the service
MaxCallers == 2
\* instance_count.max
MaxTarget == 2
\* pods the service has before the calls
MaxPrePods == 1

\* pod_number: u8
U8 == 256

default_max_surge == 1

\* the service the detailed runs are about
Svc == "A"

\* spec.containers, by name
Declared == {{"web"}, {"web", "db"}}

PodConfigs ==
    { [name |-> Svc, min |-> lo, max |-> hi, max_surge |-> default_max_surge,
       containers |-> cs] :
         lo \in 0..MaxTarget, hi \in {MaxTarget}, cs \in Declared }

\* Container::generate_runtime_name: the four parts, joined by "__"
generate_runtime_name(service_name, pod_number, name, uuid) ==
    <<service_name, pod_number, name, uuid>>

\* Uuid::parse_str succeeds; a part that is no uuid is written 0
IsUuid(x) == x >= 1

\* parse_container_name succeeds: four parts, a u8 pod number and a uuid
parse_ok(container_name) ==
    /\ Len(container_name) = 4
    /\ container_name[2] \in 0..(U8 - 1)
    /\ IsUuid(container_name[4])

parse_container_name(container_name) ==
    [service_name |-> container_name[1], pod_number |-> container_name[2],
     container_name |-> container_name[3], uuid |-> container_name[4]]

\* runtime.list_containers(Some(service_name)): the containers whose
\* parsed name matches the service
list_containers(service_name) ==
    { c \in containers : parse_ok(c) /\ parse_container_name(c).service_name = service_name }

SetMax(S) == CHOOSE x \in S : \A y \in S : y <= x

\* the task panicked
Panic == 0 - 1

\* get_next_pod_number: the values it can produce.  max + 1 on a u8 equal
\* to 255 panics when overflow checks are on and wraps to 0 when they are off
get_next_pod_number(service_name, ok) ==
    LET nums == { parse_container_name(c).pod_number :
                     c \in { d \in list_containers(service_name) : parse_ok(d) } }
    IN IF ~ok \/ nums = {} THEN {0}
       ELSE IF SetMax(nums) + 1 < U8 THEN {SetMax(nums) + 1}
       ELSE {Panic, (SetMax(nums) + 1) % U8}

InstancesOf(service_name) ==
    IF service_name \in DOMAIN INSTANCE_STORE THEN INSTANCE_STORE[service_name] ELSE Empty

ContainerMetadata(name, network, status) ==
    [name |-> name, network |-> network, status |-> status]

InstanceMetadata(uuid, network, cs) ==
    [uuid |-> uuid, network |-> network, containers |-> cs]

CallIdle == [pc |-> "idle"]

\* the stores a call holds a write guard on: between instance_store.get_mut
\* and the end of the `if let` block manage holds the guard of the
\* service's entry
WriteGuards(call) == IF call.pc = "insert" THEN {"INSTANCE_STORE"} ELSE {}

\* the Runtime Adapter call a call of manage is waiting for
RuntimeCall(call) ==
    CASE call.pc = "number" -> "list_containers"
      [] call.pc = "start" -> "start_containers"
      [] call.pc \in {"insert", "insert_new"} -> "get_image_digest"
      [] OTHER -> "none"

\* some call holds a write guard on INSTANCE_STORE: get, get_mut and insert
\* of the other calls wait
InstancesGuarded == \E c \in DOMAIN calls : "INSTANCE_STORE" \in WriteGuards(calls[c])

\* the iteration of manage's loop is over
manage_next(call) ==
    [call EXCEPT !.todo = @ - 1, !.pc = IF call.todo > 1 THEN "number" ELSE "done"]

\* manage_enter, except that the pods the service already has are not
\* taken off the number of pods to start
manage_enter_ignores_current(c, config) ==
    LET current == Cardinality(DOMAIN InstancesOf(config.name))
        target == config.min
    IN
    /\ calls[c].pc = "idle"
    /\ ~InstancesGuarded
    /\ calls' = [calls EXCEPT ![c] =
                   [pc |-> IF current < target THEN "number" ELSE "done",
                    config |-> config, current |-> current,
                    before |-> DOMAIN InstancesOf(config.name),
                    todo |-> IF current < target THEN target ELSE 0,
                    attempts |-> 0, failed |-> 0, listed |-> TRUE,
                    pod_number |-> 0, uuid |-> 0, started |-> {}]]
    /\ UNCHANGED <<env, stores, CONFIG_UPDATES, detached, runtime, initTodo,
                   watcher, cleanups, updates, nUpdates, containers, stopped,
                   assigned>>
    /\ UNCHANGED stats

\* manage is entered: current and target are read
manage_enter(c, config) ==
    LET current == Cardinality(DOMAIN InstancesOf(config.name))
        target == config.min
    IN
    /\ calls[c].pc = "idle"
    /\ ~InstancesGuarded
    /\ calls' = [calls EXCEPT ![c] =
                   [pc |-> IF current < target THEN "number" ELSE "done",
                    config |-> config, current |-> current,
                    before |-> DOMAIN InstancesOf(config.name),
                    todo |-> IF current < target THEN target - current ELSE 0,
                    attempts |-> 0, failed |-> 0, listed |-> TRUE,
                    pod_number |-> 0, uuid |-> 0, started |-> {}]]
    /\ UNCHANGED <<env, stores, CONFIG_UPDATES, detached, runtime, initTodo,
                   watcher, cleanups, updates, nUpdates, containers, stopped,
                   assigned>>
    /\ UNCHANGED stats

\* get_next_pod_number and Uuid::new_v4; ok: list_containers succeeds
manage_number(c, ok) ==
    LET call == calls[c]
        s == call.config.name
    IN
    /\ call.pc = "number"
    /\ ok \/ failures < MaxFailures
    /\ failures' = IF ok THEN failures ELSE failures + 1
    /\ \E n \in get_next_pod_number(s, ok) :
          calls' = [calls EXCEPT ![c] =
                      [call EXCEPT !.pc = IF n = Panic THEN "panicked" ELSE "start",
                                   !.pod_number = n, !.uuid = nextUuid,
                                   !.listed = ok]]
    /\ nextUuid' = nextUuid + 1
    /\ UNCHANGED <<env, stores, CONFIG_UPDATES, detached, running, networks,
                   stopCalls, netCalls, initTodo, watcher, cleanups, updates,
                   nUpdates, containers, stopped, assigned>>
    /\ UNCHANGED stats


\* the pod manage builds from what start_containers returned
manage_pod_metadata(call) ==
    LET network_name == PodNetwork(call.config.name, call.uuid)
    IN InstanceMetadata(call.uuid, network_name,
          { ContainerMetadata(n, network_name, "running") : n \in call.started })

\* manage_start, except that the pod of a failed start is stored with no
\* containers
manage_start_keeps_failed(c, ok) ==
    LET call == calls[c]
        s == call.config.name
        names == { generate_runtime_name(s, call.pod_number, n, nextUuid) :
                      n \in call.config.containers }
        started == [call EXCEPT !.attempts = @ + 1, !.started = names]
    IN
    /\ call.pc = "start"
    /\ IF ok
       THEN /\ ~InstancesGuarded
            /\ containers' = containers \cup names
            /\ nextUuid' = nextUuid + 1
            /\ assigned' = assigned \cup {<<s, call.pod_number>>}
            /\ UNCHANGED <<failures, INSTANCE_STORE>>
            /\ calls' = [calls EXCEPT ![c] =
                           [started EXCEPT !.pc = IF s \in DOMAIN INSTANCE_STORE
                                                  THEN "insert" ELSE "insert_new"]]
       ELSE /\ failures < MaxFailures
            /\ failures' = failures + 1
            /\ INSTANCE_STORE' =
                  Put(INSTANCE_STORE, s,
                      Put(InstancesOf(s), call.uuid, manage_pod_metadata(call)))
            /\ calls' = [calls EXCEPT ![c] =
                           manage_next([call EXCEPT !.attempts = @ + 1, !.failed = @ + 1])]
            /\ UNCHANGED <<containers, nextUuid, assigned>>
    /\ UNCHANGED <<env, CONFIG_STORE, SCALING_TASKS, IMAGE_CHECK_TASKS,
                   SERVER_BACKENDS, CONFIG_UPDATES, detached, running, networks,
                   stopCalls, netCalls, initTodo, watcher, cleanups, updates,
                   nUpdates, stopped>>
    /\ UNCHANGED stats

\* runtime.start_containers(service_name, pod_number, containers, config):
\* the runtime names the containers it starts under a uuid of its own, as
\* it is not given manage's.  On Ok instance_store.get_mut looks for the
\* service's entry and, when it finds one, returns its write guard
manage_start(c, ok) ==
    LET call == calls[c]
        s == call.config.name
        names == { generate_runtime_name(s, call.pod_number, n, nextUuid) :
                      n \in call.config.containers }
        started == [call EXCEPT !.attempts = @ + 1, !.started = names]
    IN
    /\ call.pc = "start"
    /\ IF ok
       THEN /\ ~InstancesGuarded
            /\ containers' = containers \cup names
            /\ nextUuid' = nextUuid + 1
            /\ assigned' = assigned \cup {<<s, call.pod_number>>}
            /\ UNCHANGED <<failures, INSTANCE_STORE>>
            /\ calls' = [calls EXCEPT ![c] =
                           [started EXCEPT !.pc = IF s \in DOMAIN INSTANCE_STORE
                                                  THEN "insert" ELSE "insert_new"]]
       ELSE /\ failures < MaxFailures
            /\ failures' = failures + 1
            /\ calls' = [calls EXCEPT ![c] =
                           manage_next([call EXCEPT !.attempts = @ + 1, !.failed = @ + 1])]
            /\ UNCHANGED <<containers, nextUuid, assigned, INSTANCE_STORE>>
    /\ UNCHANGED <<env, CONFIG_STORE, SCALING_TASKS, IMAGE_CHECK_TASKS,
                   SERVER_BACKENDS, CONFIG_UPDATES, detached, running, networks,
                   stopCalls, netCalls, initTodo, watcher, cleanups, updates,
                   nUpdates, stopped>>
    /\ UNCHANGED stats

\* get_mut found the entry: the image digests are fetched with the guard
\* held, the pod is inserted into the entry and the guard is dropped
manage_insert_guarded(c) ==
    LET call == calls[c]
        s == call.config.name
    IN
    /\ call.pc = "insert"
    /\ INSTANCE_STORE' =
          [INSTANCE_STORE EXCEPT ![s] = Put(@, call.uuid, manage_pod_metadata(call))]
    /\ calls' = [calls EXCEPT ![c] = manage_next(call)]
    /\ UNCHANGED <<env, CONFIG_STORE, SCALING_TASKS, IMAGE_CHECK_TASKS,
                   SERVER_BACKENDS, CONFIG_UPDATES, detached, runtime, initTodo,
                   watcher, cleanups, updates, nUpdates, containers, stopped,
                   assigned>>
    /\ UNCHANGED stats

\* get_mut found no entry: after the image digests are fetched, a new map
\* holding the pod is inserted under the service's name
manage_insert_new(c) ==
    LET call == calls[c]
        s == call.config.name
    IN
    /\ call.pc = "insert_new"
    /\ ~InstancesGuarded
    /\ INSTANCE_STORE' = Put(INSTANCE_STORE, s, Put(Empty, call.uuid, manage_pod_metadata(call)))
    /\ calls' = [calls EXCEPT ![c] = manage_next(call)]
    /\ UNCHANGED <<env, CONFIG_STORE, SCALING_TASKS, IMAGE_CHECK_TASKS,
                   SERVER_BACKENDS, CONFIG_UPDATES, detached, runtime, initTodo,
                   watcher, cleanups, updates, nUpdates, containers, stopped,
                   assigned>>
    /\ UNCHANGED stats

manage ==
    \/ \E c \in DOMAIN calls, config \in PodConfigs : manage_enter(c, config)
    \/ \E c \in DOMAIN calls, ok \in BOOLEAN : manage_number(c, ok)
    \/ \E c \in DOMAIN calls, ok \in BOOLEAN : manage_start(c, ok)
    \/ \E c \in DOMAIN calls : manage_insert_guarded(c)
    \/ \E c \in DOMAIN calls : manage_insert_new(c)

\* a pod the service had before: its containers are named after its uuid
PrePod(s, uuid, pod_number, cs) ==
    InstanceMetadata(uuid, PodNetwork(s, uuid),
       { ContainerMetadata(generate_runtime_name(s, pod_number, n, uuid),
                           PodNetwork(s, uuid), "adopted") : n \in cs })

\* a container of the service whose name is not of the four-part shape
Stray == <<Svc, "debug">>

PodNumbers == {0, 1, U8 - 1}

InitManage ==
    \E n \in 1..MaxCallers, pre \in 0..MaxPrePods, entry \in BOOLEAN,
       num \in PodNumbers, cs \in Declared, stray \in BOOLEAN, gone \in SUBSET {0, 1} :
        LET pods == [u \in 1..pre |-> PrePod(Svc, u, num, cs)]
        IN
        /\ config_dir = <<"configs">>
        /\ fs = [f \in Files |-> Absent]
        /\ fsOps = MaxFsOps
        /\ queue = <<>>
        /\ CONFIG_STORE = Empty
        /\ INSTANCE_STORE = IF entry \/ pre > 0 THEN Put(Empty, Svc, pods) ELSE Empty
        /\ SCALING_TASKS = Empty
        /\ IMAGE_CHECK_TASKS = Empty
        /\ SERVER_BACKENDS = Empty
        /\ CONFIG_UPDATES = <<>>
        /\ detached = {}
        /\ nextUuid = pre + 1
        /\ running = {}
        /\ networks = {}
        /\ stopCalls = {}
        /\ netCalls = {}
        /\ failures = 0
        /\ initTodo = {}
        /\ watcher = WatcherIdle
        /\ cleanups = EmptyBag
        /\ updates = EmptyBag
        /\ nUpdates = MaxUpdates
        /\ containers = UNION { { cm.name : cm \in pods[u].containers } : u \in 1..pre }
                           \cup (IF stray THEN {Stray} ELSE {})
        /\ stopped = {}
        /\ assigned = { <<Svc, num>> : u \in 1..pre } \cup { <<Svc, k>> : k \in gone }
        /\ calls = [c \in 1..n |-> CallIdle]
        /\ NoStats

SpecManage == InitManage /\ [][manage]_vars

----------------------------------------------------------------------------
(* handle_orphans in detail, as initialize_configs calls it before manage  *)

\* pod groups the runtime holds at startup
MaxGroups == 2

\* the containers a pod left by an earlier run can have: the declared ones
\* and one the manifest no longer declares
OrphanNames ==
    { generate_runtime_name(Svc, u - 1, n, u) : n \in {"web", "db", "old"}, u \in 1..MaxGroups }

OrphanConfigs ==
    { [name |-> Svc, min |-> lo, max |-> MaxTarget, max_surge |-> default_max_surge,
       containers |-> cs, adopt_orphans |-> adopt, ports |-> ports] :
         lo \in 0..MaxTarget, cs \in Declared, adopt \in BOOLEAN,
         ports \in {{}, {"web"}, {"web", "db"}} }

\* the containers of the pod group uuid among those found
GroupOf(found, uuid) ==
    { c \in found : parse_ok(c) /\ parse_container_name(c).uuid = uuid }

GroupsOf(found) == { parse_container_name(c).uuid : c \in { d \in found : parse_ok(d) } }

\* incomplete_pod_uuids
incomplete_pod_uuids(found, config) ==
    { u \in GroupsOf(found) :
         Cardinality(GroupOf(found, u)) # Cardinality(config.containers) }

\* list_containers; on Err handle_orphans returns it, on an empty list Ok
handle_orphans_list(ok) ==
    LET call == calls[1]
        found == list_containers(call.config.name)
        todo == IF call.config.adopt_orphans
                THEN incomplete_pod_uuids(found, call.config) ELSE GroupsOf(found)
    IN
    /\ call.pc = "list"
    /\ ok \/ failures < MaxFailures
    /\ failures' = IF ok THEN failures ELSE failures + 1
    /\ calls' = [calls EXCEPT ![1] =
                   IF ~ok THEN [call EXCEPT !.pc = "error"]
                   ELSE [call EXCEPT !.found = found, !.todo = todo,
                           !.pc = IF found = {} THEN "done"
                                  ELSE IF ~call.config.adopt_orphans THEN "spawn"
                                  ELSE IF todo = {} THEN "adopt" ELSE "incomplete"]]
    /\ UNCHANGED <<env, stores, CONFIG_UPDATES, detached, nextUuid, running,
                   networks, stopCalls, netCalls, initTodo, watcher, cleanups,
                   updates, nUpdates, containers, stopped, assigned>>
    /\ UNCHANGED stats

\* handle_orphans_stop_incomplete, except that the network is left alone
\* once a container of the pod could not be stopped
handle_orphans_stop_incomplete_gives_up(uuid, failStop, failNet) ==
    LET call == calls[1]
        group == GroupOf(call.found, uuid)
        network_name == PodNetwork(call.config.name, uuid)
        todo == call.todo \ {uuid}
        n == Cardinality(failStop) + (IF failNet THEN 1 ELSE 0)
    IN
    /\ call.pc = "incomplete"
    /\ uuid \in call.todo
    /\ failStop \subseteq group
    /\ failures + n <= MaxFailures
    /\ failures' = failures + n
    /\ stopped' = stopped \cup group
    /\ containers' = containers \ (group \ failStop)
    /\ netCalls' = IF failStop = {} THEN netCalls \cup {network_name} ELSE netCalls
    /\ networks' = IF failNet \/ failStop # {} THEN networks ELSE networks \ {network_name}
    /\ calls' = [calls EXCEPT ![1] =
                   [call EXCEPT !.todo = todo,
                                !.pc = IF todo = {} THEN "adopt" ELSE "incomplete"]]
    /\ UNCHANGED <<env, stores, CONFIG_UPDATES, detached, nextUuid, running,
                   stopCalls, initTodo, watcher, cleanups, updates, nUpdates,
                   assigned>>
    /\ UNCHANGED stats

\* adopt_orphans: the containers of an incomplete pod are stopped one after
\* the other and its network is removed; errors are logged
handle_orphans_stop_incomplete(uuid, failStop, failNet) ==
    LET call == calls[1]
        group == GroupOf(call.found, uuid)
        network_name == PodNetwork(call.config.name, uuid)
        todo == call.todo \ {uuid}
        n == Cardinality(failStop) + (IF failNet THEN 1 ELSE 0)
    IN
    /\ call.pc = "incomplete"
    /\ uuid \in call.todo
    /\ failStop \subseteq group
    /\ failures + n <= MaxFailures
    /\ failures' = failures + n
    /\ stopped' = stopped \cup group
    /\ containers' = containers \ (group \ failStop)
    /\ netCalls' = netCalls \cup {network_name}
    /\ networks' = IF failNet THEN networks ELSE networks \ {network_name}
    /\ calls' = [calls EXCEPT ![1] =
                   [call EXCEPT !.todo = todo,
                                !.pc = IF todo = {} THEN "adopt" ELSE "incomplete"]]
    /\ UNCHANGED <<env, stores, CONFIG_UPDATES, detached, nextUuid, running,
                   stopCalls, initTodo, watcher, cleanups, updates, nUpdates,
                   assigned>>
    /\ UNCHANGED stats

\* the ContainerMetadata pushed for the containers of a complete pod: of
\* those whose container is declared with ports and can be inspected
pod_metadata(call, uuid, inspectFail) ==
    { ContainerMetadata(c, PodNetwork(call.config.name, uuid), "adopted") :
        c \in { d \in GroupOf(call.found, uuid) :
                  /\ parse_container_name(d).container_name \in call.config.containers
                  /\ parse_container_name(d).container_name \in call.config.ports
                  /\ d \notin inspectFail } }

\* adopt_orphans: under the store's write lock the service's entry is
\* created if missing and every remaining pod group with a non-empty
\* pod_metadata is inserted under its uuid
handle_orphans_adopt(inspectFail) ==
    LET call == calls[1]
        s == call.config.name
        complete == GroupsOf(call.found) \ incomplete_pod_uuids(call.found, call.config)
        adopted == { u \in complete : pod_metadata(call, u, inspectFail) # {} }
        instances == InstancesOf(s)
    IN
    /\ call.pc = "adopt"
    /\ inspectFail \subseteq call.found
    /\ failures + Cardinality(inspectFail) <= MaxFailures
    /\ failures' = failures + Cardinality(inspectFail)
    /\ INSTANCE_STORE' =
          Put(INSTANCE_STORE, s,
              [u \in DOMAIN instances \cup adopted |->
                  IF u \in adopted
                  THEN InstanceMetadata(u, PodNetwork(s, u), pod_metadata(call, u, inspectFail))
                  ELSE instances[u]])
    /\ calls' = [calls EXCEPT ![1] = [call EXCEPT !.pc = "done"]]
    /\ UNCHANGED <<env, CONFIG_STORE, SCALING_TASKS, IMAGE_CHECK_TASKS,
                   SERVER_BACKENDS, CONFIG_UPDATES, detached, nextUuid, running,
                   networks, stopCalls, netCalls, initTodo, watcher, cleanups,
                   updates, nUpdates, containers, stopped, assigned>>
    /\ UNCHANGED stats


\* adopt_orphans false: for the next network a stop task is spawned for
\* each of its containers
handle_orphans_spawn(uuid) ==
    LET call == calls[1] IN
    /\ call.pc = "spawn"
    /\ uuid \in call.todo
    /\ calls' = [calls EXCEPT ![1] =
                   [call EXCEPT !.pc = "join", !.net = uuid,
                                !.pending = GroupOf(call.found, uuid)]]
    /\ UNCHANGED <<env, stores, CONFIG_UPDATES, detached, runtime, initTodo,
                   watcher, cleanups, updates, nUpdates, containers, stopped,
                   assigned>>
    /\ UNCHANGED stats

\* one spawned stop task runs stop_container and finishes
handle_orphans_stop(container_name, ok) ==
    LET call == calls[1] IN
    /\ call.pc = "join"
    /\ container_name \in call.pending
    /\ ok \/ failures < MaxFailures
    /\ failures' = IF ok THEN failures ELSE failures + 1
    /\ stopped' = stopped \cup {container_name}
    /\ containers' = IF ok THEN containers \ {container_name} ELSE containers
    /\ calls' = [calls EXCEPT ![1] =
                   [call EXCEPT !.pending = call.pending \ {container_name}]]
    /\ UNCHANGED <<env, stores, CONFIG_UPDATES, detached, nextUuid, running,
                   networks, stopCalls, netCalls, initTodo, watcher, cleanups,
                   updates, nUpdates, assigned>>
    /\ UNCHANGED stats

\* the network is removed without waiting for the stop tasks
handle_orphans_remove_network_early(ok) ==
    LET call == calls[1]
        network_name == PodNetwork(call.config.name, call.net)
        todo == call.todo \ {call.net}
    IN
    /\ call.pc = "join"
    /\ ok \/ failures < MaxFailures
    /\ failures' = IF ok THEN failures ELSE failures + 1
    /\ netCalls' = netCalls \cup {network_name}
    /\ networks' = IF ok THEN networks \ {network_name} ELSE networks
    /\ calls' = [calls EXCEPT ![1] =
                   [call EXCEPT !.todo = todo, !.pending = {},
                                !.pc = IF todo = {} THEN "done" ELSE "spawn"]]
    /\ UNCHANGED <<env, stores, CONFIG_UPDATES, detached, nextUuid, running,
                   stopCalls, initTodo, watcher, cleanups, updates, nUpdates,
                   containers, stopped, assigned>>
    /\ UNCHANGED stats

\* join_all has returned and the delay has passed: remove_pod_network
handle_orphans_remove_network(ok) ==
    LET call == calls[1]
        network_name == PodNetwork(call.config.name, call.net)
        todo == call.todo \ {call.net}
    IN
    /\ call.pc = "join"
    /\ call.pending = {}
    /\ ok \/ failures < MaxFailures
    /\ failures' = IF ok THEN failures ELSE failures + 1
    /\ netCalls' = netCalls \cup {network_name}
    /\ networks' = IF ok THEN networks \ {network_name} ELSE networks
    /\ calls' = [calls EXCEPT ![1] =
                   [call EXCEPT !.todo = todo,
                                !.pc = IF todo = {} THEN "done" ELSE "spawn"]]
    /\ UNCHANGED <<env, stores, CONFIG_UPDATES, detached, nextUuid, running,
                   stopCalls, initTodo, watcher, cleanups, updates, nUpdates,
                   containers, stopped, assigned>>
    /\ UNCHANGED stats

handle_orphans ==
    \/ \E ok \in BOOLEAN : handle_orphans_list(ok)
    \/ \E uuid \in 1..MaxGroups : \E failStop \in SUBSET OrphanNames :
          \E failNet \in BOOLEAN : handle_orphans_stop_incomplete(uuid, failStop, failNet)
    \/ \E inspectFail \in SUBSET OrphanNames : handle_orphans_adopt(inspectFail)
    \/ \E uuid \in 1..MaxGroups : handle_orphans_spawn(uuid)
    \/ \E container_name \in OrphanNames : \E ok \in BOOLEAN :
          handle_orphans_stop(container_name, ok)
    \/ \E ok \in BOOLEAN : handle_orphans_remove_network(ok)

\* initialize_configs: handle_orphans has returned Ok and manage is called
initialize_configs_manage ==
    /\ calls[1].pc = "done"
    /\ manage_enter(2, calls[1].config)

OrphansIdle(config) ==
    [pc |-> "list", config |-> config, found |-> {}, todo |-> {}, net |-> 0,
     pending |-> {}]

\* startup of one service: the runtime holds containers of earlier pods of
\* the service, each pod with its network, and nothing is stored yet
InitOrphans ==
    \E config \in OrphanConfigs : \E found \in SUBSET OrphanNames : \E stray \in BOOLEAN :
       /\ config_dir = "abs"
       /\ fs = Empty
       /\ fsOps = MaxFsOps
       /\ queue = <<>>
       /\ CONFIG_STORE = Empty
       /\ INSTANCE_STORE = Empty
       /\ SCALING_TASKS = Empty
       /\ IMAGE_CHECK_TASKS = Empty
       /\ SERVER_BACKENDS = Empty
       /\ CONFIG_UPDATES = <<>>
       /\ detached = {}
       /\ nextUuid = MaxGroups + 1
       /\ running = {}
       /\ networks = { PodNetwork(Svc, u) : u \in GroupsOf(found) }
       /\ stopCalls = {}
       /\ netCalls = {}
       /\ failures = 0
       /\ initTodo = {}
       /\ watcher = [pc |-> "idle"]
       /\ cleanups = EmptyBag
       /\ updates = EmptyBag
       /\ nUpdates = MaxUpdates
       /\ containers = found \cup (IF stray THEN {Stray} ELSE {})
       /\ stopped = {}
       /\ assigned = {}
       /\ calls = <<OrphansIdle(config), CallIdle>>
       /\ NoStats

SpecOrphans == InitOrphans /\ [][handle_orphans \/ initialize_configs_manage]_vars

----------------------------------------------------------------------------
(* The store locks: each handler as the sequence of lock operations and    *)
(* Runtime Adapter awaits its code makes, run by concurrent tasks          *)

\* tasks running at once
MaxTasks == 2

\* the operations: a read or write lock (or map guard) is taken, the lock
\* last taken is dropped, a Runtime Adapter call is awaited
R(store) == <<"read", store>>

W(store) == <<"write", store>>

Drop == <<"drop", "">>

Await == <<"runtime", "">>

\* container::manage: instance_store.get, list_containers, start_containers,
\* get_mut with get_image_digest awaited under the guard
manage_locks ==
    <<R("INSTANCE_STORE"), Drop, Await, Await, W("INSTANCE_STORE"), Await, Drop>>

\* process_event for a Modify event with a valid manifest, then the sweep
process_event_locks ==
    <<R("CONFIG_STORE"), Drop, W("CONFIG_STORE"), Drop, W("SCALING_TASKS"), Drop>>
      \o manage_locks
      \o <<W("SCALING_TASKS"), Drop, R("CONFIG_STORE"), Drop,
           W("CONFIG_STORE"), Drop, W("SCALING_TASKS"), Drop>>

\* process_event for a Remove event, then the sweep
process_event_remove_locks ==
    <<R("CONFIG_STORE"), Drop, W("CONFIG_STORE"), Drop, W("SCALING_TASKS"), Drop,
      R("CONFIG_STORE"), Drop>>

\* stop_service, except that the scaling tasks stay locked until the
\* instances have been taken out of their store
stop_service_locks_nested ==
    <<W("SCALING_TASKS"), W("IMAGE_CHECK_TASKS"), Drop, W("SERVER_BACKENDS"), Drop,
      W("INSTANCE_STORE"), Drop, Drop, W("CONTAINER_HEALTH"), Drop, Await, Await>>

\* stop_service for a service with one pod
stop_service_locks ==
    <<W("SCALING_TASKS"), Drop, W("IMAGE_CHECK_TASKS"), Drop, W("SERVER_BACKENDS"), Drop,
      W("INSTANCE_STORE"), Drop, W("CONTAINER_HEALTH"), Drop, Await, Await>>

\* clean_up for a service with one pod
clean_up_locks ==
    <<W("SCALING_TASKS"), Drop, W("INSTANCE_STORE"), Drop, R("CONFIG_STORE"), Drop,
      R("SERVER_BACKENDS"), Drop, Await>>

\* handle_config_update for a service with a scaling task or without
handle_config_update_locks ==
    <<R("SCALING_TASKS"), Drop, W("SCALING_TASKS"), Drop, W("CONFIG_STORE"), Drop>>
      \o manage_locks

\* handle_orphans with adopt_orphans: list, stops, then inspect_container
\* and get_image_digest awaited under the write lock
handle_orphans_locks ==
    <<Await, Await, W("INSTANCE_STORE"), Await, Await, Drop>>

Handlers ==
    {manage_locks, process_event_locks, process_event_remove_locks, stop_service_locks,
     clean_up_locks, handle_config_update_locks, handle_orphans_locks}

\* the locks task t holds, in the order it took them
Held(t) == calls[t].held

Holders(store, mode) ==
    { t \in DOMAIN calls :
         \E i \in 1..Len(Held(t)) : Held(t)[i][2] = store /\ Held(t)[i][1] \in mode }

\* the tasks that hold the lock task t needs next in a way that makes t wait
WaitsFor(t) ==
    LET call == calls[t]
        op == call.prog[call.at]
    IN IF call.pc # "run" THEN {}
       ELSE IF op[1] = "write" THEN Holders(op[2], {"read", "write"}) \ {t}
       ELSE IF op[1] = "read" THEN Holders(op[2], {"write"}) \ {t}
       ELSE {}

\* one operation of task t
lock_step(t) ==
    LET call == calls[t]
        op == call.prog[call.at]
        held == IF op[1] \in {"read", "write"} THEN Append(call.held, op)
                ELSE IF op[1] = "drop" THEN SubSeq(call.held, 1, Len(call.held) - 1)
                ELSE call.held
    IN
    /\ call.pc = "run"
    /\ WaitsFor(t) = {}
    /\ calls' = [calls EXCEPT ![t] =
                   [call EXCEPT !.held = held, !.at = @ + 1,
                                !.pc = IF call.at = Len(call.prog) THEN "done" ELSE "run"]]
    /\ UNCHANGED <<env, stores, CONFIG_UPDATES, detached, runtime, initTodo,
                   watcher, cleanups, updates, nUpdates, containers, stopped,
                   assigned>>
    /\ UNCHANGED stats

Locks == \E t \in DOMAIN calls : lock_step(t)

InitLocks ==
    /\ config_dir = <<"configs">>
    /\ fs = [f \in Files |-> Absent]
    /\ fsOps = MaxFsOps
    /\ queue = <<>>
    /\ CONFIG_STORE = Empty
    /\ INSTANCE_STORE = Empty
    /\ SCALING_TASKS = Empty
    /\ IMAGE_CHECK_TASKS = Empty
    /\ SERVER_BACKENDS = Empty
    /\ CONFIG_UPDATES = <<>>
    /\ detached = {}
    /\ nextUuid = 1
    /\ running = {}
    /\ networks = {}
    /\ stopCalls = {}
    /\ netCalls = {}
    /\ failures = 0
    /\ initTodo = {}
    /\ watcher = WatcherIdle
    /\ cleanups = EmptyBag
    /\ updates = EmptyBag
    /\ nUpdates = MaxUpdates
    /\ containers = {}
    /\ stopped = {}
    /\ assigned = {}
    /\ calls \in [1..MaxTasks -> { [pc |-> "run", prog |-> h, at |-> 1, held |-> <<>>] :
                                     h \in Handlers }]
    /\ NoStats

SpecLocks == InitLocks /\ [][Locks]_vars

----------------------------------------------------------------------------
(* Pure functions, applied to inputs drawn at the start.  Text is a        *)
(* sequence of characters; a uuid in its hyphenated form and a run of      *)
(* letters are written as one character each, as no function looks inside  *)

\* every variable but calls, in a state where nothing runs
Quiet ==
    /\ config_dir = <<"configs">>
    /\ fs = [f \in Files |-> Absent]
    /\ fsOps = MaxFsOps
    /\ queue = <<>>
    /\ CONFIG_STORE = Empty
    /\ INSTANCE_STORE = Empty
    /\ SCALING_TASKS = Empty
    /\ IMAGE_CHECK_TASKS = Empty
    /\ SERVER_BACKENDS = Empty
    /\ CONFIG_UPDATES = <<>>
    /\ detached = {}
    /\ nextUuid = 1
    /\ running = {}
    /\ networks = {}
    /\ stopCalls = {}
    /\ netCalls = {}
    /\ failures = 0
    /\ initTodo = {}
    /\ watcher = WatcherIdle
    /\ cleanups = EmptyBag
    /\ updates = EmptyBag
    /\ nUpdates = MaxUpdates
    /\ containers = {}
    /\ stopped = {}
    /\ assigned = {}
    /\ NoStats

QuietStep ==
    UNCHANGED <<env, stores, CONFIG_UPDATES, detached, runtime, initTodo, watcher,
                cleanups, updates, nUpdates, containers, stopped, assigned, stats>>

Err == [ok |-> FALSE]

Ok(v) == [ok |-> TRUE, value |-> v]

\* characters of a container spec name in the inputs
MaxSpecNameLen == 3

MAX_SERVICE_NAME_LENGTH == 60

MAX_CONTAINER_NAME_LENGTH == 60

DigitChars == <<"0", "1", "2", "3", "4", "5", "6", "7", "8", "9">>

\* Display of an unsigned integer: its decimal digits
RECURSIVE to_string(_)
to_string(n) ==
    IF n < 10 THEN <<DigitChars[n + 1]>>
    ELSE to_string(n \div 10) \o <<DigitChars[(n % 10) + 1]>>

\* format!("{service_name}__{pod_number}__{}__{uuid}", self.name)
format_runtime_name(service_name, pod_number, name, uuid) ==
    service_name \o <<"_", "_">> \o to_string(pod_number) \o <<"_", "_">>
       \o name \o <<"_", "_">> \o uuid

\* Container::generate_runtime_name, self.name passed as name
Container_generate_runtime_name(service_name, pod_number, name, uuid) ==
    IF Len(service_name) > MAX_SERVICE_NAME_LENGTH THEN Err
    ELSE IF Len(name) > MAX_CONTAINER_NAME_LENGTH THEN Err
    ELSE Ok(format_runtime_name(service_name, pod_number, name, uuid))

\* str::split("__"): the pieces between the matches of "__", which are
\* found from the left and do not overlap
RECURSIVE split(_)
split(text) ==
    LET hits == { i \in 1..(Len(text) - 1) : text[i] = "_" /\ text[i + 1] = "_" }
    IN IF hits = {} THEN <<text>>
       ELSE LET i == CHOOSE k \in hits : \A j \in hits : k <= j
            IN <<SubSeq(text, 1, i - 1)>> \o split(SubSeq(text, i + 2, Len(text)))

DigitValue(ch) == (CHOOSE d \in 1..10 : DigitChars[d] = ch) - 1

IsDigit(ch) == \E d \in 1..10 : DigitChars[d] = ch

RECURSIVE decimal(_)
decimal(text) ==
    IF text = <<>> THEN 0
    ELSE 10 * decimal(SubSeq(text, 1, Len(text) - 1)) + DigitValue(text[Len(text)])

\* str::parse::<u8>: an optional "+", then digits whose value fits 8 bits
parse_u8(text) ==
    LET digits == IF text # <<>> /\ text[1] = "+" THEN Tail(text) ELSE text
    IN IF digits = <<>> \/ \E i \in 1..Len(digits) : ~IsDigit(digits[i]) THEN Err
       ELSE IF decimal(digits) >= U8 THEN Err
       ELSE Ok(decimal(digits))

\* the uuids of the inputs, each in its hyphenated text form
UuidTexts == {<<"6ba7b810-9dad-11d1-80b4-00c04fd430c8">>, <<"6ba7b811-9dad-11d1-80b4-00c04fd430c8">>}

\* Uuid::parse_str
Uuid_parse_str(text) == IF text \in UuidTexts THEN Ok(text) ELSE Err

\* parse_container_name taking the first four of four or more segments
parse_container_name_text_first_four(container_name) ==
    LET parts == split(container_name)
    IN IF Len(parts) < 4 THEN Err
       ELSE IF ~parse_u8(parts[2]).ok THEN Err
       ELSE IF ~Uuid_parse_str(parts[4]).ok THEN Err
       ELSE Ok([service_name |-> parts[1], pod_number |-> parse_u8(parts[2]).value,
                container_name |-> parts[3], uuid |-> Uuid_parse_str(parts[4]).value])

\* parse_container_name on the text of a name
parse_container_name_text(container_name) ==
    LET parts == split(container_name)
    IN IF Len(parts) # 4 THEN Err
       ELSE IF ~parse_u8(parts[2]).ok THEN Err
       ELSE IF ~Uuid_parse_str(parts[4]).ok THEN Err
       ELSE Ok([service_name |-> parts[1], pod_number |-> parse_u8(parts[2]).value,
                container_name |-> parts[3], uuid |-> Uuid_parse_str(parts[4]).value])

\* service names that pass validation: DNS-safe, at most 210 characters
ServiceNames ==
    {<<"a">>, <<"web", "-", "1">>, [i \in 1..(MAX_SERVICE_NAME_LENGTH + 1) |-> "a"]}

\* container spec names: validation asks only that they differ in a service
SpecNames ==
    UNION { [1..k -> {"a", "_"}] : k \in 1..MaxSpecNameLen }

NameInputs ==
    [service_name : ServiceNames, pod_number : {0, 7, U8 - 1}, name : SpecNames,
     uuid : UuidTexts]

generate_step ==
    LET in == calls[1].in IN
    /\ calls[1].pc = "input"
    /\ calls' = [calls EXCEPT ![1] =
                   [calls[1] EXCEPT
                       !.pc = "named",
                       !.runtime_name =
                           Container_generate_runtime_name(
                              in.service_name, in.pod_number, in.name, in.uuid)]]
    /\ QuietStep

parse_step ==
    LET runtime_name == calls[1].runtime_name IN
    /\ calls[1].pc = "named"
    /\ calls' = [calls EXCEPT ![1] =
                   [calls[1] EXCEPT
                       !.pc = "parsed",
                       !.parts = IF runtime_name.ok
                                 THEN parse_container_name_text(runtime_name.value)
                                 ELSE Err]]
    /\ QuietStep

InitNames ==
    /\ Quiet
    /\ \E in \in NameInputs :
          calls = <<[pc |-> "input", in |-> in, runtime_name |-> Err, parts |-> Err]>>

SpecRuntimeNames == InitNames /\ [][generate_step \/ parse_step]_vars

\* segments joined into the text of a name
MaxSegments == 5

\* segments: names with and without an underscore at the end, numbers in
\* and out of the range of a u8, with a sign, nothing, a uuid
SegmentTexts ==
    {<<"a">>, <<"a", "_">>, <<"7">>, <<"2", "5", "5">>, <<"2", "5", "6">>, <<"+", "7">>,
     <<>>, <<"6ba7b810-9dad-11d1-80b4-00c04fd430c8">>}

RECURSIVE join(_)
join(segments) ==
    IF Len(segments) = 1 THEN segments[1]
    ELSE segments[1] \o <<"_", "_">> \o join(Tail(segments))

NameTexts ==
    { join(segments) : segments \in UNION { [1..k -> SegmentTexts] : k \in 1..MaxSegments } }

parse_text_step ==
    /\ calls[1].pc = "text"
    /\ calls' = [calls EXCEPT ![1] =
                   [calls[1] EXCEPT !.pc = "parsed",
                                    !.parts = parse_container_name_text(calls[1].in)]]
    /\ QuietStep

InitTexts ==
    /\ Quiet
    /\ \E text \in NameTexts : calls = <<[pc |-> "text", in |-> text, parts |-> Err]>>

SpecNameTexts == InitTexts /\ [][parse_text_step]_vars

----------------------------------------------------------------------------
(* The watcher's filter and process_event's loop over the paths of one     *)
(* event.  A file name is the sequence of its dot-separated pieces and its  *)
(* dots; the handling of a path that is let through is taken in one step   *)

\* paths in one event (a rename carries the old and the new path)
MaxPaths == 2

WatchFiles ==
    {<<"a", ".", "yaml">>, <<"b", ".", "yml">>, <<".", "yaml">>, <<"a", ".", "txt">>,
     <<"Makefile">>}

None == <<>>

\* Path::extension of a file name: the piece after the last dot; None when
\* the name has no dot, or begins with its only dot
extension(name) ==
    LET dots == { i \in 1..Len(name) : name[i] = "." }
        last == CHOOSE i \in dots : \A j \in dots : j <= i
    IN IF dots = {} \/ dots = {1} THEN None
       ELSE SubSeq(name, last + 1, Len(name))

IsYaml(e) == e = <<"yml">> \/ e = <<"yaml">>

\* str::ends_with(".yml") || str::ends_with(".yaml")
ends_with_yaml(name) ==
    Len(name) >= 2 /\ name[Len(name) - 1] = "." /\ IsYaml(<<name[Len(name)]>>)

\* the debouncer's callback lets the event through
propagated(event) ==
    /\ \E i \in 1..Len(event.paths) : IsYaml(extension(FileOf(event.paths[i])))
    /\ event.kind \in {"Create", "Modify", "Remove"}

\* the callback of the debouncer, for the raw event
watch_directory_callback ==
    LET call == calls[1] IN
    /\ call.pc = "raw"
    /\ queue' = IF propagated(call.event) THEN Append(queue, call.event) ELSE queue
    /\ calls' = [calls EXCEPT ![1] = [call EXCEPT !.pc = "received"]]
    /\ UNCHANGED <<config_dir, fs, fsOps, stores, CONFIG_UPDATES, detached, runtime,
                   initTodo, watcher, cleanups, updates, nUpdates, containers,
                   stopped, assigned, stats>>

\* process_event, Create | Modify, one path of the loop: the file is there,
\* its extension (if it has one) is yml or yaml, read_yaml_config accepts
\* it; the config is stored, the scaling task replaced, the pods started
process_event_path_load(path) ==
    LET rel == get_relative_config_path(path, config_dir)
        existing == IF Head(queue).kind = "Modify" /\ rel \in DOMAIN CONFIG_STORE
                    THEN CONFIG_STORE[rel].config.name ELSE ""
        config == fs[FileOf(path)]
        s == config.name
        pods == FreshPods(s, manage_todo(INSTANCE_STORE, s, config), ByEvent(1))
        instances == IF pods = {} THEN INSTANCE_STORE
                     ELSE Put(INSTANCE_STORE, s, PodsOf(INSTANCE_STORE, s) \cup pods)
        e == extension(FileOf(path))
    IN
    IF /\ Exists(path)
       /\ e # None => IsYaml(e)
       /\ ends_with_yaml(FileOf(path))
       /\ read_yaml_config_ok(CONFIG_STORE, config, existing)
    THEN /\ CONFIG_STORE' = Put(CONFIG_STORE, rel, [path |-> path, config |-> config])
         /\ INSTANCE_STORE' = instances
         /\ nextUuid' = nextUuid + Cardinality(pods)
         /\ running' = running \cup Nets(pods)
         /\ networks' = networks \cup Nets(pods)
         /\ SERVER_BACKENDS' = run_proxy_for_service(SERVER_BACKENDS, instances, s)
         /\ SCALING_TASKS' = Put(Del(SCALING_TASKS, NameKey(s)), NameKey(s),
                                 Handle("auto_scale", s, ByEvent(1)))
         /\ UNCHANGED <<IMAGE_CHECK_TASKS, cleanups>>
    ELSE UNCHANGED <<stores, nextUuid, running, networks, cleanups>>

\* process_event, Remove, one path of the loop
process_event_path_remove(path) ==
    IF path \in DOMAIN CONFIG_STORE
    THEN /\ CONFIG_STORE' = Del(CONFIG_STORE, path)
         /\ SCALING_TASKS' = Del(SCALING_TASKS, NameKey(CONFIG_STORE[path].config.name))
         /\ cleanups' = Spawn(cleanups, CONFIG_STORE[path].config.name, 1)
         /\ UNCHANGED <<INSTANCE_STORE, IMAGE_CHECK_TASKS, SERVER_BACKENDS, nextUuid,
                        running, networks>>
    ELSE UNCHANGED <<stores, nextUuid, running, networks, cleanups>>

\* one turn of `for path in event.paths.iter()`
process_event_path ==
    LET call == calls[1]
        event == Head(queue)
        path == event.paths[call.at]
    IN
    /\ call.pc = "received"
    /\ queue # <<>>
    /\ call.at <= Len(event.paths)
    /\ IF event.kind = "Remove" THEN process_event_path_remove(path)
       ELSE process_event_path_load(path)
    /\ calls' = [calls EXCEPT ![1] = [call EXCEPT !.at = @ + 1]]
    /\ UNCHANGED <<env, CONFIG_UPDATES, detached, stopCalls, netCalls, failures,
                   initTodo, watcher, updates, nUpdates, containers, stopped,
                   assigned, stats>>

\* the entries the sweep finds: the file is gone or its extension is not
\* yml or yaml
services_to_cleanup_ext(store) ==
    { [path |-> store[k].path, name |-> store[k].config.name] :
        k \in { x \in DOMAIN store :
                  ~Exists(store[x].path) \/ ~IsYaml(extension(FileOf(store[x].path))) } }

\* the sweep that ends process_event
process_event_paths_sweep ==
    LET call == calls[1]
        found == services_to_cleanup_ext(CONFIG_STORE)
    IN
    /\ call.pc = "received"
    /\ queue # <<>>
    /\ call.at > Len(Head(queue).paths)
    /\ queue' = Tail(queue)
    /\ CONFIG_STORE' = DelAll(CONFIG_STORE, { e.path : e \in found })
    /\ SCALING_TASKS' = DelAll(SCALING_TASKS, { NameKey(e.name) : e \in found })
    /\ cleanups' = SpawnAll(cleanups, found, 1)
    /\ calls' = [calls EXCEPT ![1] = [call EXCEPT !.pc = "done"]]
    /\ UNCHANGED <<config_dir, fs, fsOps, INSTANCE_STORE, IMAGE_CHECK_TASKS,
                   SERVER_BACKENDS, CONFIG_UPDATES, detached, runtime, initTodo,
                   watcher, updates, nUpdates, containers, stopped, assigned, stats>>

RawEvents ==
    { [kind |-> k, paths |-> ps] :
        k \in {"Create", "Modify", "Remove", "Access"},
        ps \in UNION { [1..n -> { EventPath(<<"configs">>, f) : f \in WatchFiles }] :
                         n \in 1..MaxPaths } }

InitWatch ==
    /\ config_dir = <<"configs">>
    /\ fs \in [WatchFiles -> {Absent, [name |-> "A", min |-> 1]}]
    /\ fsOps = MaxFsOps
    /\ queue = <<>>
    /\ CONFIG_STORE = Empty
    /\ INSTANCE_STORE = Empty
    /\ SCALING_TASKS = Empty
    /\ IMAGE_CHECK_TASKS = Empty
    /\ SERVER_BACKENDS = Empty
    /\ CONFIG_UPDATES = <<>>
    /\ detached = {}
    /\ nextUuid = 1
    /\ running = {}
    /\ networks = {}
    /\ stopCalls = {}
    /\ netCalls = {}
    /\ failures = 0
    /\ initTodo = {}
    /\ watcher = WatcherIdle
    /\ cleanups = EmptyBag
    /\ updates = EmptyBag
    /\ nUpdates = MaxUpdates
    /\ containers = {}
    /\ stopped = {}
    /\ assigned = {}
    /\ NoStats
    /\ \E event \in RawEvents : calls = <<[pc |-> "raw", event |-> event, at |-> 1]>>

SpecWatch ==
    InitWatch /\ [][watch_directory_callback \/ process_event_path
                      \/ process_event_paths_sweep]_vars

----------------------------------------------------------------------------
(* Arithmetic of the limit parsers and of the stats collector.  A natural   *)
(* number of any size is the sequence of its digits in base 2^15, lowest    *)
(* first, without a leading zero digit; an f64 is a sign, a significand of  *)
(* at most 53 bits and a power of two.  Every operation rounds to nearest,  *)
(* ties to even, as IEEE 754 does.  Infinities, NaN and subnormals are not  *)
(* reached by the inputs below.  CHOOSE r \in { e(v) : v \in {x} } : TRUE is  *)
(* e(x), written so that x is evaluated once, before e                      *)

Base == 2^15

RECURSIVE Trim(_)
Trim(a) == IF a # <<>> /\ a[Len(a)] = 0 THEN Trim(SubSeq(a, 1, Len(a) - 1)) ELSE a

RECURSIVE Big(_)
Big(n) == IF n = 0 THEN <<>> ELSE <<n % Base>> \o Big(n \div Base)

RECURSIVE MulSmallCarry(_, _, _)
MulSmallCarry(a, k, carry) ==
    IF a = <<>> THEN Big(carry)
    ELSE CHOOSE r \in { <<t % Base>> \o MulSmallCarry(rest, k, t \div Base) :
                          t \in {a[1] * k + carry}, rest \in {Tail(a)} } : TRUE

\* a * k, for k below Base
MulSmall(a, k) == Trim(MulSmallCarry(a, k, 0))

RECURSIVE DivSmallRem(_, _)
DivSmallRem(a, k) ==
    IF a = <<>> THEN [q |-> <<>>, r |-> 0]
    ELSE CHOOSE r \in { [q |-> <<(hi.r * Base + a[1]) \div k>> \o hi.q,
                          r |-> (hi.r * Base + a[1]) % k] :
                          hi \in {DivSmallRem(Tail(a), k)} } : TRUE

\* quotient and remainder of a by k, for k up to Base
DivSmall(a, k) == LET d == DivSmallRem(a, k) IN [q |-> Trim(d.q), r |-> d.r]

RECURSIVE AddCarry(_, _, _)
AddCarry(a, b, carry) ==
    IF a = <<>> /\ b = <<>> THEN Big(carry)
    ELSE CHOOSE r \in { <<t % Base>> \o AddCarry(x, y, t \div Base) :
                          t \in {(IF a = <<>> THEN 0 ELSE a[1])
                                    + (IF b = <<>> THEN 0 ELSE b[1]) + carry},
                          x \in {IF a = <<>> THEN a ELSE Tail(a)},
                          y \in {IF b = <<>> THEN b ELSE Tail(b)} } : TRUE

Add(a, b) == Trim(AddCarry(a, b, 0))

RECURSIVE SubBorrow(_, _, _)
SubBorrow(a, b, borrow) ==
    IF a = <<>> THEN <<>>
    ELSE CHOOSE r \in { <<t % Base>> \o SubBorrow(x, y, IF t < 0 THEN 1 ELSE 0) :
                          t \in {a[1] - (IF b = <<>> THEN 0 ELSE b[1]) - borrow},
                          x \in {Tail(a)},
                          y \in {IF b = <<>> THEN b ELSE Tail(b)} } : TRUE

\* a - b, for b up to a
Sub(a, b) == Trim(SubBorrow(a, b, 0))

Less(a, b) ==
    \/ Len(a) < Len(b)
    \/ /\ Len(a) = Len(b)
       /\ \E i \in 1..Len(a) :
             a[i] < b[i] /\ \A j \in (i + 1)..Len(a) : a[j] = b[j]

RECURSIVE Mul(_, _)
Mul(a, b) ==
    IF b = <<>> THEN <<>>
    ELSE CHOOSE r \in { Add(low, IF hi = <<>> THEN hi ELSE <<0>> \o hi) :
                          low \in {MulSmall(a, b[1])}, hi \in {Mul(a, Tail(b))} } : TRUE

RECURSIVE BitLenSmall(_)
BitLenSmall(n) == IF n = 0 THEN 0 ELSE 1 + BitLenSmall(n \div 2)

BitLen(a) == IF a = <<>> THEN 0 ELSE 15 * (Len(a) - 1) + BitLenSmall(a[Len(a)])

\* a * 2^n
Shl(a, n) ==
    IF a = <<>> THEN a
    ELSE [i \in 1..(n \div 15) |-> 0] \o MulSmall(a, 2^(n % 15))

\* bit i of a, the lowest being bit 0
Bit(a, i) == IF i \div 15 >= Len(a) THEN 0 ELSE (a[(i \div 15) + 1] \div 2^(i % 15)) % 2

\* a shifted right by n bits: the bits kept, the last bit shifted out, and
\* whether any bit before it (or `sticky`) was set
Shr(a, n, sticky) ==
    [q |-> DivSmall(SubSeq(a, (n \div 15) + 1, Len(a)), 2^(n % 15)).q,
     half |-> n > 0 /\ Bit(a, n - 1) = 1,
     sticky |-> sticky \/ \E i \in 0..(n - 2) : Bit(a, i) = 1]

\* long division by b whose highest digit is at least Base / 2: the digit
\* of the quotient is at most two below the guess made from the two highest
\* digits of the partial remainder
\* one step of the division by b: the digit d follows those of hi.q
DivDigit(hi, digit, b) ==
    LET part == Trim(<<digit>> \o hi.r)
        n == Len(b)
        top == (IF Len(part) > n THEN part[n + 1] ELSE 0) * Base
                  + (IF Len(part) >= n THEN part[n] ELSE 0)
        guess == IF top \div b[n] >= Base THEN Base - 1 ELSE top \div b[n]
        d == CHOOSE x \in {guess, guess - 1, guess - 2} :
                /\ x >= 0
                /\ ~Less(part, MulSmall(b, x))
                /\ x = guess \/ Less(part, MulSmall(b, x + 1))
    IN [q |-> Trim(<<d>> \o hi.q), r |-> Sub(part, MulSmall(b, d))]

RECURSIVE DivNorm(_, _)
DivNorm(a, b) ==
    IF a = <<>> THEN [q |-> <<>>, r |-> <<>>]
    ELSE CHOOSE r \in { DivDigit(hi, a[1], b) : hi \in {DivNorm(Tail(a), b)} } : TRUE

\* quotient and remainder of a by b, b not zero
DivBig(a, b) ==
    LET scale == 2^(15 - BitLenSmall(b[Len(b)]))
        d == DivNorm(MulSmall(a, scale), MulSmall(b, scale))
    IN [q |-> d.q, r |-> DivSmall(d.r, scale).q]

\* a divided by 10^k, and whether anything was left over
RECURSIVE DivPow10(_, _)
DivPow10(a, k) ==
    IF k = 0 THEN [q |-> a, sticky |-> FALSE]
    ELSE CHOOSE r \in { [q |-> rest.q, sticky |-> rest.sticky \/ DivSmall(a, 10).r # 0] :
                          rest \in {DivPow10(DivSmall(a, 10).q, k - 1)} } : TRUE

\* the bits kept of a number cut by Shr, rounded to nearest, ties to even
RoundCut(cut) ==
    IF cut.half /\ (cut.sticky \/ DivSmall(cut.q, 2).r = 1) THEN Add(cut.q, <<1>>)
    ELSE cut.q

\* the f64 nearest to (-1)^neg * (big * 2^exp), `sticky` telling that the
\* exact value is a little above big * 2^exp
round_to_f64(neg, big, exp, sticky) ==
    CHOOSE r \in
       { IF v = <<>> THEN [neg |-> FALSE, m |-> <<>>, e |-> 0]
         ELSE IF BitLen(v) <= 53 THEN [neg |-> neg, m |-> v, e |-> exp]
         ELSE CHOOSE s \in
                 { IF BitLen(m) = 54
                   THEN [neg |-> neg, m |-> DivSmall(m, 2).q, e |-> exp + BitLen(v) - 52]
                   ELSE [neg |-> neg, m |-> m, e |-> exp + BitLen(v) - 53] :
                     m \in { RoundCut(cut) : cut \in {Shr(v, BitLen(v) - 53, sticky)} } } : TRUE :
           v \in {big} } : TRUE

\* `n as f64` of an unsigned integer
f64_from_u64(big) == round_to_f64(FALSE, big, 0, FALSE)

\* the f64 nearest to the decimal big / 10^k
f64_from_decimal(neg, big, k) ==
    IF k = 0 THEN round_to_f64(neg, big, 0, FALSE)
    ELSE CHOOSE r \in { round_to_f64(neg, d.q, 0 - (56 + 4 * k), d.sticky) :
                         d \in {DivPow10(Shl(big, 56 + 4 * k), k)} } : TRUE

f64_mul(x, y) ==
    CHOOSE r \in { round_to_f64(a.neg # b.neg, Mul(a.m, b.m), a.e + b.e, FALSE) :
                    a \in {x}, b \in {y} } : TRUE

\* x / y, y not zero
f64_div(x, y) ==
    CHOOSE r \in
       { CHOOSE s \in
            { round_to_f64(a.neg # b.neg, d.q,
                           a.e - b.e - Max(0, 56 + BitLen(b.m) - BitLen(a.m)), d.r # <<>>) :
                d \in {DivBig(Shl(a.m, Max(0, 56 + BitLen(b.m) - BitLen(a.m))), b.m)} } : TRUE :
           a \in {x}, b \in {y} } : TRUE

f64_neg(x) == IF x.m = <<>> THEN x ELSE [x EXCEPT !.neg = ~x.neg]

\* the sum of two f64 that are not zero, brought to the lower exponent
f64_add_aligned(x, y, exp) ==
    CHOOSE r \in
       { IF x.neg = y.neg THEN round_to_f64(x.neg, Add(a, b), exp, FALSE)
         ELSE IF Less(a, b) THEN round_to_f64(y.neg, Sub(b, a), exp, FALSE)
         ELSE round_to_f64(x.neg, Sub(a, b), exp, FALSE) :
           a \in {Shl(x.m, x.e - exp)}, b \in {Shl(y.m, y.e - exp)} } : TRUE

f64_add(x, y) ==
    CHOOSE r \in
       { IF a.m = <<>> THEN b
         ELSE IF b.m = <<>> THEN a
         ELSE f64_add_aligned(a, b, IF a.e <= b.e THEN a.e ELSE b.e) :
           a \in {x}, b \in {y} } : TRUE

f64_sub(x, y) == f64_add(x, f64_neg(y))

\* x < y
f64_lt(x, y) == \E d \in {f64_sub(x, y)} : d.m # <<>> /\ d.neg

f64_max(x, y) == CHOOSE r \in { IF f64_lt(a, b) THEN b ELSE a : a \in {x}, b \in {y} } : TRUE

f64_min(x, y) == CHOOSE r \in { IF f64_lt(b, a) THEN b ELSE a : a \in {x}, b \in {y} } : TRUE

f64_zero == [neg |-> FALSE, m |-> <<>>, e |-> 0]

u64_MAX == Sub(Shl(<<1>>, 64), <<1>>)

\* `x as u64`: towards zero, saturating
f64_as_u64(x) ==
    IF x.neg \/ x.m = <<>> THEN <<>>
    ELSE IF BitLen(x.m) + x.e > 64 THEN u64_MAX
    ELSE IF x.e >= 0 THEN Shl(x.m, x.e)
    ELSE Shr(x.m, 0 - x.e, FALSE).q

----------------------------------------------------------------------------
(* parse_memory_limit and parse_cpu_limit                                   *)

\* characters of a limit in the inputs
MaxLimitLen == 3

LimitChars == {"0", "1", "2", "4", "5", ".", "-", "K", "M", "G", "i", "x"}

LimitTexts == UNION { [1..n -> LimitChars] : n \in 1..MaxLimitLen }

AllDigits(text) == \A i \in 1..Len(text) : IsDigit(text[i])

RECURSIVE BigDecimal(_)
BigDecimal(text) ==
    IF text = <<>> THEN <<>>
    ELSE Add(MulSmall(BigDecimal(SubSeq(text, 1, Len(text) - 1)), 10),
             Big(DigitValue(text[Len(text)])))

\* str::parse::<f64>, for texts without an exponent, "inf" or "nan": an
\* optional sign, digits with at most one point among them, one digit at least
parse_f64(text) ==
    LET signed == text # <<>> /\ text[1] \in {"-", "+"}
        body == IF signed THEN Tail(text) ELSE text
        dots == { i \in 1..Len(body) : body[i] = "." }
        dot == IF dots = {} THEN Len(body) + 1 ELSE CHOOSE i \in dots : TRUE
        int == SubSeq(body, 1, dot - 1)
        frac == SubSeq(body, dot + 1, Len(body))
    IN IF \/ Cardinality(dots) > 1
          \/ ~AllDigits(int) \/ ~AllDigits(frac)
          \/ int \o frac = <<>>
       THEN Err
       ELSE Ok(f64_from_decimal(signed /\ text[1] = "-", BigDecimal(int \o frac),
                                Len(frac)))

\* a JSON number literal: -? (0 | [1-9][0-9]*) (. [0-9]+)?
IsNumberLiteral(text) ==
    LET body == IF text # <<>> /\ text[1] = "-" THEN Tail(text) ELSE text
        dots == { i \in 1..Len(body) : body[i] = "." }
        dot == IF dots = {} THEN Len(body) + 1 ELSE CHOOSE i \in dots : TRUE
        int == SubSeq(body, 1, dot - 1)
        frac == SubSeq(body, dot + 1, Len(body))
    IN /\ Cardinality(dots) <= 1
       /\ int # <<>> /\ AllDigits(int) /\ (Len(int) > 1 => int[1] # "0")
       /\ AllDigits(frac) /\ (dots # {} => frac # <<>>)

\* the serde_json values of a limit
JsonValues ==
    { [type |-> "String", text |-> text] : text \in LimitTexts }
       \cup { [type |-> "Number", text |-> text] :
                 text \in { x \in LimitTexts : IsNumberLiteral(x) } }
       \cup { [type |-> "Bool", text |-> <<>>] }

\* Number::as_f64
as_f64(number) == parse_f64(number.text).value

\* how many digits text has from position `from` on
RECURSIVE LeadDigits(_, _)
LeadDigits(text, from) ==
    IF from <= Len(text) /\ IsDigit(text[from]) THEN 1 + LeadDigits(text, from + 1)
    ELSE 0

\* Regex ^(\d+\.?\d*)([KMG]i?)$ : the two groups, or Err
memory_captures(text) ==
    LET dot == 1 + LeadDigits(text, 1)
        frac == IF dot <= Len(text) /\ text[dot] = "." THEN dot + 1 ELSE dot
        unit == frac + LeadDigits(text, frac)
        group2 == SubSeq(text, unit, Len(text))
    IN IF /\ dot > 1
          /\ group2 \in {<<"K">>, <<"M">>, <<"G">>, <<"K", "i">>, <<"M", "i">>, <<"G", "i">>}
       THEN Ok(<<SubSeq(text, 1, unit - 1), group2>>)
       ELSE Err

f64_1024 == f64_from_u64(Big(1024))

\* parse_memory_limit with decimal multipliers
parse_memory_limit_decimal(memory_limit) ==
    LET f64_1000 == f64_from_u64(Big(1000)) IN
    IF memory_limit.type = "Number"
    THEN Ok(f64_as_u64(f64_mul(f64_mul(f64_mul(as_f64(memory_limit), f64_1000),
                                       f64_1000), f64_1000)))
    ELSE IF memory_limit.type = "String"
    THEN LET caps == memory_captures(memory_limit.text)
             value == parse_f64(caps.value[1])
             multiplier ==
                 IF caps.value[2] \in {<<"K", "i">>, <<"K">>} THEN f64_1000
                 ELSE IF caps.value[2] \in {<<"M", "i">>, <<"M">>}
                      THEN f64_mul(f64_1000, f64_1000)
                 ELSE f64_mul(f64_mul(f64_1000, f64_1000), f64_1000)
         IN IF ~caps.ok THEN Err
            ELSE IF ~value.ok THEN Err
            ELSE Ok(f64_as_u64(f64_mul(value.value, multiplier)))
    ELSE Err

parse_memory_limit(memory_limit) ==
    IF memory_limit.type = "Number"
    THEN Ok(f64_as_u64(f64_mul(f64_mul(f64_mul(as_f64(memory_limit), f64_1024),
                                       f64_1024), f64_1024)))
    ELSE IF memory_limit.type = "String"
    THEN LET caps == memory_captures(memory_limit.text)
             value == parse_f64(caps.value[1])
             multiplier ==
                 IF caps.value[2] \in {<<"K", "i">>, <<"K">>} THEN f64_1024
                 ELSE IF caps.value[2] \in {<<"M", "i">>, <<"M">>}
                      THEN f64_mul(f64_1024, f64_1024)
                 ELSE f64_mul(f64_mul(f64_1024, f64_1024), f64_1024)
         IN IF ~caps.ok THEN Err
            ELSE IF ~value.ok THEN Err
            ELSE Ok(f64_as_u64(f64_mul(value.value, multiplier)))
    ELSE Err

f64_1e9 == f64_from_u64(Big(1000000000))

parse_cpu_limit(cpu_limit) ==
    IF cpu_limit.type = "Number"
    THEN LET value == as_f64(cpu_limit)
         IN IF \/ ~f64_lt(f64_zero, value)
               \/ f64_lt(f64_div(f64_from_u64(u64_MAX), f64_1e9), value)
            THEN Err
            ELSE Ok(f64_as_u64(f64_mul(value, f64_1e9)))
    ELSE IF cpu_limit.type = "String"
    THEN LET value == parse_f64(cpu_limit.text)
         IN IF ~value.ok THEN Err
            ELSE Ok(f64_as_u64(f64_mul(value.value, f64_1e9)))
    ELSE Err

parse_memory_limit_step ==
    LET call == calls[1] IN
    /\ call.pc = "memory_limit"
    /\ calls' = [calls EXCEPT ![1] =
                   [call EXCEPT !.pc = "done", !.out = parse_memory_limit(call.in)]]
    /\ QuietStep

parse_cpu_limit_step ==
    LET call == calls[1] IN
    /\ call.pc = "cpu_limit"
    /\ calls' = [calls EXCEPT ![1] =
                   [call EXCEPT !.pc = "done", !.out = parse_cpu_limit(call.in)]]
    /\ QuietStep

InitLimits ==
    /\ Quiet
    /\ \E f \in {"memory_limit", "cpu_limit"}, v \in JsonValues :
          calls = <<[pc |-> f, fn |-> f, in |-> v, out |-> Err]>>

SpecLimits == InitLimits /\ [][parse_memory_limit_step \/ parse_cpu_limit_step]_vars

----------------------------------------------------------------------------
(* The stats collector: update_container_stats and remove_container_stats   *)
(* for the containers of one service.  An Option is Err for None and        *)
(* Ok(v) for Some(v)                                                       *)

\* samples taken in a run
MaxSamples == 2

StatsContainers == {<<"A", 0, "web", 1>>}

f64_100 == f64_from_u64(Big(100))

\* calculate_cpu_percentages with a missing previous entry read as an entry
\* of zeros
calculate_cpu_percentages_from_zero(previous, cpu_total, system_cpu, online_cpus, nano_cpus) ==
    LET before == IF previous.ok THEN previous.value
                  ELSE [cpu_total_usage |-> 0, system_cpu_usage |-> 0, timestamp |-> 0]
        cpu_delta == f64_sub(f64_from_u64(Big(cpu_total)),
                             f64_from_u64(Big(before.cpu_total_usage)))
        system_delta == f64_sub(f64_from_u64(Big(system_cpu)),
                                f64_from_u64(Big(before.system_cpu_usage)))
        absolute_cpu ==
            f64_min(f64_max(f64_mul(f64_mul(f64_div(cpu_delta, system_delta), online_cpus),
                                    f64_100), f64_zero),
                    f64_mul(f64_100, online_cpus))
        allocated_cpu == f64_div(f64_from_u64(Big(nano_cpus.value)), f64_1e9)
        relative == f64_div(f64_div(absolute_cpu, online_cpus), allocated_cpu)
        relative_cpu ==
            IF nano_cpus.ok
            THEN IF f64_lt(f64_zero, allocated_cpu)
                 THEN f64_min(f64_max(f64_mul(relative, f64_100), f64_zero), f64_100)
                 ELSE f64_zero
            ELSE f64_div(absolute_cpu, online_cpus)
    IN IF f64_lt(f64_zero, system_delta) /\ ~f64_lt(cpu_delta, f64_zero)
       THEN <<f64_div(absolute_cpu, online_cpus), relative_cpu>>
       ELSE <<f64_zero, f64_zero>>

calculate_cpu_percentages(previous, cpu_total, system_cpu, online_cpus, nano_cpus) ==
    LET cpu_delta == f64_sub(f64_from_u64(Big(cpu_total)),
                             f64_from_u64(Big(previous.value.cpu_total_usage)))
        system_delta == f64_sub(f64_from_u64(Big(system_cpu)),
                                f64_from_u64(Big(previous.value.system_cpu_usage)))
        absolute_cpu ==
            f64_min(f64_max(f64_mul(f64_mul(f64_div(cpu_delta, system_delta), online_cpus),
                                    f64_100), f64_zero),
                    f64_mul(f64_100, online_cpus))
        allocated_cpu == f64_div(f64_from_u64(Big(nano_cpus.value)), f64_1e9)
        relative == f64_div(f64_div(absolute_cpu, online_cpus), allocated_cpu)
        relative_cpu ==
            IF nano_cpus.ok
            THEN IF f64_lt(f64_zero, allocated_cpu)
                 THEN f64_min(f64_max(f64_mul(relative, f64_100), f64_zero), f64_100)
                 ELSE f64_zero
            ELSE f64_div(absolute_cpu, online_cpus)
    IN IF previous.ok
       THEN IF f64_lt(f64_zero, system_delta) /\ ~f64_lt(cpu_delta, f64_zero)
            THEN <<f64_div(absolute_cpu, online_cpus), relative_cpu>>
            ELSE <<f64_zero, f64_zero>>
       ELSE <<f64_zero, f64_zero>>

\* ContainerStats::update_network_stats
update_network_stats(self, sample, previous) ==
    LET rx_bytes == sample.networks.value.rx_bytes
        tx_bytes == sample.networks.value.tx_bytes
        prev == previous.value
        \* duration_since(prev.timestamp), one second when the clock went back
        time_diff == IF self.timestamp >= prev.timestamp
                     THEN f64_from_u64(Big(self.timestamp - prev.timestamp))
                     ELSE f64_from_u64(Big(1))
        rated == previous.ok /\ f64_lt(f64_zero, time_diff)
    IN IF ~sample.networks.ok THEN self
       ELSE [self EXCEPT
               !.network_rx_rate =
                   IF rated
                   THEN f64_div(f64_sub(f64_from_u64(Big(rx_bytes)),
                                        f64_from_u64(Big(prev.network_rx_bytes))), time_diff)
                   ELSE @,
               !.network_tx_rate =
                   IF rated
                   THEN f64_div(f64_sub(f64_from_u64(Big(tx_bytes)),
                                        f64_from_u64(Big(prev.network_tx_bytes))), time_diff)
                   ELSE @,
               !.network_rx_bytes = rx_bytes,
               !.network_tx_bytes = tx_bytes]

\* the samples of the runtime: cpu_total, system_cpu_usage (none reads 0),
\* online_cpus (none reads 1), the sum of the networks' counters if any
Samples ==
    { [cpu_total |-> c, system_cpu |-> y, online_cpus |-> o, networks |-> n] :
        c \in {0, 1, 2}, y \in {0, 1, 4}, o \in {1, 2},
        n \in {Err, Ok([rx_bytes |-> 100, tx_bytes |-> 50])} }

\* cpu_limit of the container in nanocpus, if it has one
NanoCpus == {Err, Ok(0), Ok(1000000000), Ok(2000000000)}

\* update_container_stats(service_name, container_name, stats, nano_cpus)
update_container_stats(service_name, container_name, sample, nano_cpus) ==
    LET call == calls[1]
        now == call.now + 1
        previous_entry == IF container_name \in DOMAIN CONTAINER_STATS
                          THEN Ok(CONTAINER_STATS[container_name]) ELSE Err
        previous_stats ==
            IF /\ previous_entry.ok
               /\ service_name \in DOMAIN SERVICE_STATS
               /\ container_name \in DOMAIN SERVICE_STATS[service_name]
            THEN Ok(SERVICE_STATS[service_name][container_name]) ELSE Err
        cpu == calculate_cpu_percentages(previous_entry, sample.cpu_total, sample.system_cpu,
                                         f64_from_u64(Big(sample.online_cpus)), nano_cpus)
        container_stats ==
            update_network_stats(
               [cpu_percentage |-> cpu[1], cpu_percentage_relative |-> cpu[2],
                network_rx_bytes |-> 0, network_tx_bytes |-> 0,
                network_rx_rate |-> f64_zero, network_tx_rate |-> f64_zero,
                timestamp |-> now],
               sample, previous_stats)
    IN
    /\ call.n < MaxSamples
    /\ CONTAINER_STATS' =
          Put(CONTAINER_STATS, container_name,
              [cpu_total_usage |-> sample.cpu_total,
               system_cpu_usage |-> sample.system_cpu, timestamp |-> now])
    /\ SERVICE_STATS' =
          Put(SERVICE_STATS, service_name,
              Put(IF service_name \in DOMAIN SERVICE_STATS THEN SERVICE_STATS[service_name]
                  ELSE Empty, container_name, container_stats))
    /\ calls' = <<[pc |-> "sampled", n |-> call.n + 1, now |-> now,
                   removed |-> call.removed, name |-> container_name, in |-> sample,
                   nano_cpus |-> nano_cpus, previous |-> previous_entry,
                   out |-> Ok(container_stats)]>>
    /\ UNCHANGED <<env, stores, CONFIG_UPDATES, detached, runtime, initTodo, watcher,
                   cleanups, updates, nUpdates, containers, stopped, assigned>>

\* remove_container_stats(service_name, container_name)
remove_container_stats(service_name, container_name) ==
    /\ calls[1].pc = "sampled"
    /\ CONTAINER_STATS' = remove_container_stats_container(CONTAINER_STATS, {container_name})
    /\ SERVICE_STATS' =
          remove_container_stats_service(SERVICE_STATS, service_name, {container_name})
    /\ calls' = [calls EXCEPT ![1] = [calls[1] EXCEPT !.pc = "removed", !.removed = TRUE]]
    /\ UNCHANGED <<env, stores, CONFIG_UPDATES, detached, runtime, initTodo, watcher,
                   cleanups, updates, nUpdates, containers, stopped, assigned>>

Sampling ==
    \E name \in StatsContainers :
       \/ \E sample \in Samples, nano_cpus \in NanoCpus :
             update_container_stats("A", name, sample, nano_cpus)
       \/ remove_container_stats("A", name)

InitStats ==
    /\ Quiet
    /\ calls = <<[pc |-> "start", n |-> 0, now |-> 0, removed |-> FALSE,
                  name |-> <<"A", 0, "web", 1>>,
                  in |-> [cpu_total |-> 0, system_cpu |-> 0, online_cpus |-> 1,
                          networks |-> Err],
                  nano_cpus |-> Err, previous |-> Err, out |-> Err]>>

SpecStats == InitStats /\ [][Sampling]_vars

----------------------------------------------------------------------------
(* aggregate_pod_stats over the container stats of one pod.  Of each        *)
(* (Uuid, InstanceMetadata, ContainerStats) the function reads the four     *)
(* fields of the ContainerStats; a panic is Err                             *)

\* containers of the pod
MaxPodContainers == 2

\* 0, 12.5 and 100
PodCpuValues ==
    {f64_zero, [neg |-> FALSE, m |-> <<25>>, e |-> 0 - 1], f64_from_u64(Big(100))}

PodContainerStats ==
    [cpu_percentage : PodCpuValues,
     cpu_percentage_relative : {f64_zero, f64_from_u64(Big(50))},
     memory_usage : {1, 2},
     memory_limit : {0, 4}]

PodInputs == UNION { [1..n -> PodContainerStats] : n \in 0..MaxPodContainers }

RECURSIVE max_stats(_)
max_stats(container_stats) ==
    IF container_stats = <<>>
    THEN [cpu_percentage |-> f64_zero, cpu_percentage_relative |-> f64_zero,
          memory_usage |-> 0, memory_limit |-> 0]
    ELSE LET n == Len(container_stats)
             acc == max_stats(SubSeq(container_stats, 1, n - 1))
             c == container_stats[n]
         IN [cpu_percentage |-> f64_max(acc.cpu_percentage, c.cpu_percentage),
             cpu_percentage_relative |->
                 f64_max(acc.cpu_percentage_relative, c.cpu_percentage_relative),
             memory_usage |-> Max(acc.memory_usage, c.memory_usage),
             memory_limit |-> Max(acc.memory_limit, c.memory_limit)]

RECURSIVE sum_stats(_)
sum_stats(container_stats) ==
    IF container_stats = <<>>
    THEN [cpu_percentage |-> f64_zero, cpu_percentage_relative |-> f64_zero,
          memory_usage |-> 0, memory_limit |-> 0]
    ELSE LET n == Len(container_stats)
             acc == sum_stats(SubSeq(container_stats, 1, n - 1))
             c == container_stats[n]
         IN [cpu_percentage |-> f64_add(acc.cpu_percentage, c.cpu_percentage),
             cpu_percentage_relative |->
                 f64_add(acc.cpu_percentage_relative, c.cpu_percentage_relative),
             memory_usage |-> acc.memory_usage + c.memory_usage,
             memory_limit |-> acc.memory_limit + c.memory_limit]

\* aggregate_pod_stats with Average giving the sums
aggregate_pod_stats_sums(container_stats, strategy) ==
    IF strategy = "Maximum" THEN Ok(max_stats(container_stats))
    ELSE Ok(sum_stats(container_stats))

\* with no containers, count is 0.0: the f64 quotients are NaN and
\* `sum / count as u64` divides an integer by zero, which panics
aggregate_pod_stats(container_stats, strategy) ==
    IF strategy = "Maximum" THEN Ok(max_stats(container_stats))
    ELSE LET count == Len(container_stats)
             sum == sum_stats(container_stats)
         IN IF count = 0 THEN Err
            ELSE Ok([cpu_percentage |->
                         f64_div(sum.cpu_percentage, f64_from_u64(Big(count))),
                     cpu_percentage_relative |->
                         f64_div(sum.cpu_percentage_relative, f64_from_u64(Big(count))),
                     memory_usage |-> sum.memory_usage \div count,
                     memory_limit |-> sum.memory_limit \div count])

aggregate_pod_stats_step ==
    LET call == calls[1]
        out == aggregate_pod_stats(call.in, call.strategy)
    IN /\ call.pc = "aggregate"
       /\ calls' = [calls EXCEPT ![1] =
                      [call EXCEPT !.pc = IF out.ok THEN "done" ELSE "panicked",
                                   !.out = out]]
       /\ QuietStep

InitAggregate ==
    /\ Quiet
    /\ \E container_stats \in PodInputs, strategy \in {"Maximum", "Average"} :
          calls = <<[pc |-> "aggregate", strategy |-> strategy, in |-> container_stats,
                     out |-> Err]>>

SpecAggregate == InitAggregate /\ [][aggregate_pod_stats_step]_vars

----------------------------------------------------------------------------
(* The autoscaler's UnifiedScalingManager.  crate::container::scaling is    *)
(* not among the sources: new and evaluate follow section 4.8 of the        *)
(* specification and its note on the first tick, with the configuration of  *)
(* mock_service_config.  Percentages are whole numbers here                 *)

\* evaluate calls in a run
MaxTicks == 3

\* instance_count.max; instance_count.min is 1
MaxScaleCount == 3

\* pods with stats
MaxScalePods == 2

\* resource_thresholds, scaling_policy and instance_count of the service
ScalingConfig ==
    [cpu_percentage |-> 70, cpu_percentage_relative |-> 80, memory_percentage |-> 75,
     cooldown_duration |-> 60, scale_down_threshold_percentage |-> 50,
     min |-> 1, max |-> MaxScaleCount]

\* the PodStats of the tests (10% and 85% CPU) and one in between
ScalePodStats ==
    {[cpu_percentage |-> 10, cpu_percentage_relative |-> 15,
      memory_usage |-> 200, memory_limit |-> 1000],
     [cpu_percentage |-> 60, cpu_percentage_relative |-> 60,
      memory_usage |-> 600, memory_limit |-> 1000],
     [cpu_percentage |-> 85, cpu_percentage_relative |-> 90,
      memory_usage |-> 900, memory_limit |-> 1000]}

ScaleInputs == UNION { [1..n -> ScalePodStats] : n \in 0..MaxScalePods }

\* the signals of a pod, in the order of the thresholds
PodSignals(pod) ==
    <<pod.cpu_percentage, pod.cpu_percentage_relative,
      (100 * pod.memory_usage) \div pod.memory_limit>>

Thresholds(config) ==
    <<config.cpu_percentage, config.cpu_percentage_relative, config.memory_percentage>>

UnifiedScalingManager_new(config) == [config |-> config, ticks |-> 0, last_scale |-> Err]

scale_up_candidate(config, pod_stats, codel) ==
    \/ codel
    \/ \E i \in DOMAIN pod_stats, k \in 1..3 :
          PodSignals(pod_stats[i])[k] > Thresholds(config)[k]

scale_down_candidate(config, pod_stats) ==
    \A i \in DOMAIN pod_stats, k \in 1..3 :
       100 * PodSignals(pod_stats[i])[k]
          < Thresholds(config)[k] * config.scale_down_threshold_percentage

\* steps 3 and 4 of the tick
arbitrate(self, now, current, pod_stats, codel, rolling) ==
    LET cooling == self.last_scale.ok
                     /\ now - self.last_scale.value < self.config.cooldown_duration
    IN IF scale_up_candidate(self.config, pod_stats, codel)
       THEN IF rolling \/ cooling \/ current >= self.config.max
            THEN "NoChange" ELSE "ScaleUp"
       ELSE IF scale_down_candidate(self.config, pod_stats)
       THEN IF cooling \/ current <= self.config.min THEN "NoChange" ELSE "ScaleDown"
       ELSE "NoChange"

\* evaluate with the first tick arbitrated like every other
evaluate_from_first_tick(self, now, current, pod_stats, codel, rolling) ==
    arbitrate(self, now, current, pod_stats, codel, rolling)

evaluate(self, now, current, pod_stats, codel, rolling) ==
    IF self.ticks = 0 THEN "NoChange"
    ELSE arbitrate(self, now, current, pod_stats, codel, rolling)

\* one tick of the loop: evaluate, then the scale action, which starts the
\* cooldown
scaling_tick ==
    LET call == calls[1] IN
    /\ call.pc = "ticking" /\ call.manager.ticks < MaxTicks
    /\ \E dt \in {30, 60}, pod_stats \in ScaleInputs, codel \in BOOLEAN, rolling \in BOOLEAN :
          LET now == call.now + dt
              out == evaluate(call.manager, now, call.current, pod_stats, codel, rolling)
          IN calls' = <<[call EXCEPT
                 !.now = now,
                 !.in = [pod_stats |-> pod_stats, codel |-> codel, rolling |-> rolling],
                 !.out = out,
                 !.current = IF out = "ScaleUp" THEN @ + 1
                             ELSE IF out = "ScaleDown" THEN @ - 1 ELSE @,
                 !.manager = [@ EXCEPT !.ticks = @ + 1,
                                       !.last_scale = IF out = "NoChange" THEN @
                                                      ELSE Ok(now)]]>>
    /\ QuietStep

InitScaling ==
    /\ Quiet
    /\ \E current \in 1..MaxScaleCount :
          calls = <<[pc |-> "ticking", now |-> 0, current |-> current,
                     in |-> [pod_stats |-> <<>>, codel |-> FALSE, rolling |-> FALSE],
                     out |-> "", manager |-> UnifiedScalingManager_new(ScalingConfig)]>>

SpecScaling == InitScaling /\ [][scaling_tick]_vars

----------------------------------------------------------------------------
(* initialize_configs over a directory of several manifests, with the       *)
(* result of handle_orphans: read_dir yields the entries in any order; the  *)
(* runtime holds no container at startup                                    *)

\* manifests in the directory at startup
MaxStartupFiles == 2

StartupFiles == { FileNames[i] : i \in 1..MaxStartupFiles }

\* read_yaml_config for the next entry; Ok: the config is stored under the
\* entry's path; Err: logged, the loop goes on
initialize_configs_read(f) ==
    LET call == calls[1]
        path == DirEntryPath(config_dir, f)
        ok == read_yaml_config_ok(CONFIG_STORE, fs[f], "")
    IN
    /\ call.pc = "loop"
    /\ f \in initTodo
    /\ initTodo' = initTodo \ {f}
    /\ CONFIG_STORE' = IF ok THEN Put(CONFIG_STORE, path, [path |-> path, config |-> fs[f]])
                       ELSE CONFIG_STORE
    /\ calls' = <<[call EXCEPT !.pc = IF ok THEN "orphans" ELSE "loop", !.f = f]>>
    /\ UNCHANGED <<env, INSTANCE_STORE, SCALING_TASKS, IMAGE_CHECK_TASKS, SERVER_BACKENDS,
                   CONFIG_UPDATES, detached, runtime, watcher, cleanups, updates,
                   nUpdates, containers, stopped, assigned, stats>>

\* handle_orphans(&config).await?: list_containers returns no container
\* and handle_orphans Ok(()), or an error, which `?` returns from
\* initialize_configs
initialize_configs_orphans(ok) ==
    LET call == calls[1] IN
    /\ call.pc = "orphans"
    /\ ok \/ failures < MaxFailures
    /\ failures' = IF ok THEN failures ELSE failures + 1
    /\ calls' = <<IF ok THEN [call EXCEPT !.pc = "manage"]
                  ELSE [call EXCEPT !.pc = "returned", !.result = "Err"]>>
    /\ UNCHANGED <<env, stores, CONFIG_UPDATES, detached, nextUuid, running, networks,
                   stopCalls, netCalls, initTodo, watcher, cleanups, updates, nUpdates,
                   containers, stopped, assigned, stats>>

\* container::manage (nfail of its start_containers calls fail),
\* run_proxy_for_service and the two spawned tasks
initialize_configs_start(nfail) ==
    LET call == calls[1]
        config == fs[call.f]
        s == config.name
        n == manage_todo(INSTANCE_STORE, s, config) - nfail
        pods == FreshPods(s, n, Startup)
        instances == IF n = 0 THEN INSTANCE_STORE
                     ELSE Put(INSTANCE_STORE, s, PodsOf(INSTANCE_STORE, s) \cup pods)
    IN
    /\ call.pc = "manage"
    /\ n >= 0
    /\ failures + nfail <= MaxFailures
    /\ failures' = failures + nfail
    /\ INSTANCE_STORE' = instances
    /\ nextUuid' = nextUuid + n
    /\ running' = running \cup Nets(pods)
    /\ networks' = networks \cup Nets(pods)
    /\ SERVER_BACKENDS' = run_proxy_for_service(SERVER_BACKENDS, instances, s)
    /\ SCALING_TASKS' = Put(SCALING_TASKS, NameKey(s), Handle("auto_scale", s, Startup))
    /\ IMAGE_CHECK_TASKS' = Put(IMAGE_CHECK_TASKS, s, Handle("image_check", s, Startup))
    /\ detached' = detached \cup Dropped(SCALING_TASKS, NameKey(s))
                            \cup Dropped(IMAGE_CHECK_TASKS, s)
    /\ calls' = <<[call EXCEPT !.pc = "loop", !.start_failed = @ + nfail]>>
    /\ UNCHANGED <<env, CONFIG_STORE, CONFIG_UPDATES, stopCalls, netCalls, initTodo,
                   watcher, cleanups, updates, nUpdates, containers, stopped, assigned,
                   stats>>

\* the directory has no further entry: Ok(())
initialize_configs_return ==
    LET call == calls[1] IN
    /\ call.pc = "loop"
    /\ initTodo = {}
    /\ calls' = <<[call EXCEPT !.pc = "returned", !.result = "Ok"]>>
    /\ UNCHANGED <<env, stores, CONFIG_UPDATES, detached, runtime, initTodo, watcher,
                   cleanups, updates, nUpdates, containers, stopped, assigned, stats>>

initialize_configs_loop ==
    \/ \E f \in StartupFiles : initialize_configs_read(f)
    \/ \E ok \in BOOLEAN : initialize_configs_orphans(ok)
    \/ \E nfail \in 0..MaxFailures : initialize_configs_start(nfail)
    \/ initialize_configs_return

InitStartup ==
    /\ config_dir = <<"configs">>
    /\ fs \in [StartupFiles -> {Bad} \cup Configs]
    /\ fsOps = MaxFsOps
    /\ queue = <<>>
    /\ CONFIG_STORE = Empty
    /\ INSTANCE_STORE = Empty
    /\ SCALING_TASKS = Empty
    /\ IMAGE_CHECK_TASKS = Empty
    /\ SERVER_BACKENDS = Empty
    /\ CONFIG_UPDATES = <<>>
    /\ detached = {}
    /\ nextUuid = 1
    /\ running = {}
    /\ networks = {}
    /\ stopCalls = {}
    /\ netCalls = {}
    /\ failures = 0
    /\ initTodo = StartupFiles
    /\ watcher = WatcherIdle
    /\ cleanups = EmptyBag
    /\ updates = EmptyBag
    /\ nUpdates = MaxUpdates
    /\ containers = {}
    /\ stopped = {}
    /\ assigned = {}
    /\ calls = <<[pc |-> "loop", f |-> "", result |-> "", start_failed |-> 0]>>
    /\ NoStats

SpecStartup == InitStartup /\ [][initialize_configs_loop]_vars

----------------------------------------------------------------------------
(* Properties                                                              *)

\* the cleanup task c takes a step
Acts(c) == CopiesIn(c, cleanups') < CopiesIn(c, cleanups)

\* the cleanup task of service s runs its last step: clean_up(s) returns
Finishes(s) ==
    \E c \in BagToSet(cleanups) : c.svc = s /\ c.pc = "clean_instances" /\ Acts(c)

\* the pods of s the runtime was ever asked to run or to stop
EverPods(s) == { n \in running \cup networks \cup stopCalls \cup netCalls : n[1] = s }

\* C1: at most one autoscaler task is alive per service: every spawned
\* auto_scale task other than the one whose handle is stored in
\* SCALING_TASKS under its service has been aborted.
C1_OneAutoscalerPerService == \A h \in detached : h.kind # "auto_scale"

Stopped(s) ==
    /\ s \notin DOMAIN INSTANCE_STORE
    /\ NameKey(s) \notin DOMAIN SCALING_TASKS
    /\ UpdaterKey(s) \notin DOMAIN SCALING_TASKS
    /\ s \notin DOMAIN IMAGE_CHECK_TASKS
    /\ \A n \in EverPods(s) : n \in stopCalls /\ n \in netCalls

NoBackendOfStoppedPod(s) ==
    LET k == ProxyKey(s, NodePortOf(s))
    IN k \in DOMAIN SERVER_BACKENDS =>
         \A n \in stopCalls : n[1] = s => n[3] \notin SERVER_BACKENDS[k]

\* C3: after a service is stopped by the watcher (stop_service, then
\* clean_up), SERVER_BACKENDS holds no backend of any pod the service had
\* under "{service}_{node_port}".
C3_NoBackendAfterStop == [][\A s \in Names : Finishes(s) => NoBackendOfStoppedPod(s)']_vars

\* made by an event the watcher handled after the one that spawned c
Later(c, origin) == origin.by = "event" /\ origin.seq > c.seq

\* C4: the cleanup spawned for a service by an earlier event never removes
\* the SCALING_TASKS handle or the pods that a later Create/Modify event
\* for the same service name created.
C4_CleanupSparesLaterEvents ==
    [][\A c \in BagToSet(cleanups) : Acts(c) =>
          /\ (/\ NameKey(c.svc) \in DOMAIN SCALING_TASKS
              /\ Later(c, SCALING_TASKS[NameKey(c.svc)].origin))
                => NameKey(c.svc) \in DOMAIN SCALING_TASKS'
          /\ \A p \in PodsOf(INSTANCE_STORE, c.svc) :
                Later(c, p.origin) => p \in PodsOf(INSTANCE_STORE', c.svc)]_vars

\* process_event returns: the sweep, its last part, is done
Returns == watcher.pc = "sweep" /\ watcher'.pc = "idle"

\* C5: when process_event returns, CONFIG_STORE holds no entry whose
\* manifest file no longer exists, whether the entry was inserted at
\* startup or by Create/Modify handling.
C5_SweepEvictsMissingFiles ==
    [][Returns => \A k \in DOMAIN CONFIG_STORE' :
                     fs'[FileOf(CONFIG_STORE'[k].path)] # Absent]_vars

\* C7: handling a Remove event finds the config that was inserted for the
\* removed path, removes it from CONFIG_STORE, aborts the service's scaling
\* task and spawns the stop of the service.
C7_RemoveFindsEntry ==
    [][(watcher.pc = "idle" /\ watcher'.pc = "sweep" /\ watcher'.kind = "Remove") =>
         \A k \in DOMAIN CONFIG_STORE :
            FileOf(CONFIG_STORE[k].path) = FileOf(watcher'.path) =>
              LET c == [svc |-> CONFIG_STORE[k].config.name, pc |-> "stop_tasks",
                        seq |-> watcher'.seq]
              IN /\ k \notin DOMAIN CONFIG_STORE'
                 /\ NameKey(c.svc) \notin DOMAIN SCALING_TASKS'
                 /\ CopiesIn(c, cleanups') > CopiesIn(c, cleanups)]_vars

\* C8: when the manifest of a Create/Modify event fails to parse or
\* validate, the handling of the path changes none of CONFIG_STORE,
\* SCALING_TASKS, INSTANCE_STORE, IMAGE_CHECK_TASKS and SERVER_BACKENDS.
C8_RejectedManifestChangesNothing ==
    [][(watcher.pc = "idle" /\ watcher'.pc = "sweep" /\ watcher'.result = "err")
          => UNCHANGED stores]_vars

\* a rejected Modify of a manifest whose service is stored and running
C8_Witness ==
    /\ watcher.pc = "sweep"
    /\ watcher.result = "err"
    /\ watcher.existing # ""
    /\ \E k \in DOMAIN CONFIG_STORE : CONFIG_STORE[k].config.name = watcher.existing
    /\ NameKey(watcher.existing) \in DOMAIN SCALING_TASKS

\* C9: when a Modify event delivers a valid manifest whose name differs
\* from the one stored for the path, then after the event is processed the
\* old service has no scaling task and no pods, and the new one is running.
C9_RenameStopsOldService ==
    [][(/\ Returns
        /\ watcher.kind = "Modify"
        /\ watcher.result = "ok"
        /\ watcher.existing \notin {"", watcher.config.name})
          => /\ NameKey(watcher.existing) \notin DOMAIN SCALING_TASKS'
             /\ watcher.existing \notin DOMAIN INSTANCE_STORE'
             /\ NameKey(watcher.config.name) \in DOMAIN SCALING_TASKS']_vars

\* C10: whenever SCALING_TASKS holds a handle for a service,
\* IMAGE_CHECK_TASKS holds one for it too.
C10_ImageCheckForEveryService ==
    \A s \in Names : NameKey(s) \in DOMAIN SCALING_TASKS => s \in DOMAIN IMAGE_CHECK_TASKS

\* s is the service of a stored config whose manifest f is gone
ManifestGone(s, f) ==
    /\ fs[f] = Absent
    /\ \E k \in DOMAIN CONFIG_STORE :
          CONFIG_STORE[k].config.name = s /\ FileOf(CONFIG_STORE[k].path) = f

FullyStopped(s) ==
    NameKey(s) \notin DOMAIN SCALING_TASKS /\ PodsOf(INSTANCE_STORE, s) = {}

\* C6: if the manifest of a running service is deleted then, once the
\* watcher handles any later event (it is about to sweep with the file
\* gone), the service is eventually fully stopped, with no scaling task
\* and no pods in INSTANCE_STORE, unless the manifest is written again.
C6_DeletedManifestStopsService ==
    \A s \in Names, f \in Files :
        (watcher.pc = "sweep" /\ ManifestGone(s, f) /\ ~FullyStopped(s))
            ~> (FullyStopped(s) \/ fs[f] # Absent)

\* the Remove event was missed and the sweep of a later event is what
\* sees the running service without its manifest
C6_Witness ==
    \E s \in Names, f \in Files :
        /\ watcher.pc = "sweep"
        /\ watcher.kind # "Remove"
        /\ ManifestGone(s, f)
        /\ NameKey(s) \in DOMAIN SCALING_TASKS
        /\ PodsOf(INSTANCE_STORE, s) # {}

\* one call of manage, with no other running beside it, has returned
ManageAlone == DOMAIN calls = {1} /\ calls[1].pc = "done"

C12_PodCountWithinBounds ==
    (\A c \in DOMAIN calls : calls[c].pc = "done") =>
        \A c \in DOMAIN calls :
            LET n == Cardinality(DOMAIN InstancesOf(calls[c].config.name))
            IN /\ calls[c].config.min <= n
               /\ n <= calls[c].config.max + calls[c].config.max_surge

\* C13: for every pod stored in INSTANCE_STORE[service] under key uuid, the
\* pod's uuid field equals the key, its network is "{service}__{uuid}", and
\* the name of each of its containers parses to that service and that uuid.
C13_PodNamesRoundTrip ==
    \A s \in DOMAIN INSTANCE_STORE : \A key \in DOMAIN INSTANCE_STORE[s] :
        LET pod == INSTANCE_STORE[s][key]
        IN /\ pod.uuid = key
           /\ pod.network = PodNetwork(s, key)
           /\ \A cm \in pod.containers :
                 /\ parse_ok(cm.name)
                 /\ parse_container_name(cm.name).service_name = s
                 /\ parse_container_name(cm.name).uuid = key

\* the pod numbers of the containers of s whose names parse
PodNumbersOf(s) ==
    { parse_container_name(c).pod_number : c \in { d \in list_containers(s) : parse_ok(d) } }

\* C14: get_next_pod_number returns 0 when the service has no containers
\* and max(existing pod numbers) + 1 otherwise, and a pod number given to a
\* pod of a running service is never given again to a later pod of the
\* service, also after the highest-numbered pod was removed and when
\* list_containers fails.
C14_PodNumbersNotReused ==
    [][\A c \in DOMAIN calls :
          (calls[c].pc = "number" /\ calls'[c].pc = "start") =>
             LET s == calls[c].config.name
                 n == calls'[c].pod_number
             IN /\ <<s, n>> \notin assigned
                /\ calls'[c].listed =>
                      n = IF PodNumbersOf(s) = {} THEN 0 ELSE SetMax(PodNumbersOf(s)) + 1]_vars

\* the complete pod groups handle_orphans found
CompleteGroups(call) ==
    GroupsOf(call.found) \ incomplete_pod_uuids(call.found, call.config)

\* C15: with adopt_orphans = true, handle_orphans inserts exactly one pod,
\* keyed by the group's uuid and with every container's status "adopted",
\* for each discovered group of R containers and inserts no other pod; the
\* manage that follows starts no pod when the adopted pods are at least min.
C15_AdoptsCompleteGroups ==
    [][/\ (calls[1].pc = "adopt" /\ calls'[1].pc = "done") =>
             /\ DOMAIN InstancesOf(Svc)' =
                   DOMAIN InstancesOf(Svc) \cup CompleteGroups(calls[1])
             /\ \A u \in DOMAIN InstancesOf(Svc)' \ DOMAIN InstancesOf(Svc) :
                   /\ InstancesOf(Svc)'[u].uuid = u
                   /\ \A cm \in InstancesOf(Svc)'[u].containers : cm.status = "adopted"
       /\ (/\ calls[1].pc = "done" /\ calls[1].config.adopt_orphans
           /\ calls[2].pc = "idle" /\ calls'[2].pc # "idle"
           /\ Cardinality(DOMAIN InstancesOf(Svc)) >= calls[1].config.min) =>
             calls'[2].todo = 0]_vars

\* C16: with adopt_orphans = true, for each discovered group whose size is
\* not R every container of the group has had stop_container invoked, the
\* network "{service}__{uuid}" has had remove_pod_network invoked, and the
\* group is not in INSTANCE_STORE, also when a stop or a removal failed.
C16_IncompleteGroupsRemoved ==
    (calls[1].config.adopt_orphans /\ calls[1].pc \in {"adopt", "done"}) =>
       \A u \in incomplete_pod_uuids(calls[1].found, calls[1].config) :
          /\ GroupOf(calls[1].found, u) \subseteq stopped
          /\ PodNetwork(Svc, u) \in netCalls
          /\ u \notin DOMAIN InstancesOf(Svc)

\* an incomplete group was torn down although a stop failed, next to a
\* complete group that was adopted
C16_Witness ==
    /\ calls[1].pc = "done"
    /\ calls[1].config.adopt_orphans
    /\ incomplete_pod_uuids(calls[1].found, calls[1].config) # {}
    /\ \E c \in stopped : c \in containers
    /\ DOMAIN InstancesOf(Svc) # {}

\* C17: with adopt_orphans = false, handle_orphans invokes stop_container on
\* every discovered container and remove_pod_network on every discovered
\* pod network, leaves INSTANCE_STORE unchanged, and invokes the removal of
\* a pod's network only after every stop of that pod's containers finished.
C17_NoAdoptStopsEverything ==
    [][~calls[1].config.adopt_orphans =>
          /\ netCalls' # netCalls =>
                /\ GroupOf(calls[1].found, calls[1].net) \subseteq stopped
                /\ calls[1].pending = {}
          /\ (calls[1].pc # "done" /\ calls'[1].pc = "done") =>
                /\ calls'[1].found \subseteq stopped'
                /\ \A u \in GroupsOf(calls'[1].found) : PodNetwork(Svc, u) \in netCalls'
          /\ INSTANCE_STORE' = INSTANCE_STORE]_vars

\* two pods were discovered and torn down, one stop having failed
C17_Witness ==
    /\ calls[1].pc = "done"
    /\ ~calls[1].config.adopt_orphans
    /\ Cardinality(GroupsOf(calls[1].found)) = MaxGroups
    /\ \E c \in stopped : c \in containers
    /\ Cardinality(netCalls) = MaxGroups
    /\ INSTANCE_STORE = Empty

\* the calls of handle_config_update on s that have sent ConfigUpdate and
\* not yet Resume
Between(s) ==
    { u \in BagToSet(updates) :
         u.svc = s /\ ~u.is_new_service /\ u.pc \in {"store", "manage"} }

\* C18: ConfigUpdate and Resume form balanced, ordered pairs per service: a
\* call on a service with a scaling task sends ConfigUpdate before it
\* changes CONFIG_STORE and reconciles, Resume after, and no Resume is sent
\* while another update of the service is between its ConfigUpdate and its
\* Resume.
C18_UpdateMessagesPaired ==
    [][\A s \in Names :
          /\ \A u \in BagToSet(updates) :
                (u.svc = s /\ ~u.is_new_service /\ u.pc = "signal"
                   /\ updates' = StepUpdate(updates, u, [u EXCEPT !.pc = "store"])) =>
                   /\ CONFIG_UPDATES' = Append(CONFIG_UPDATES, <<s, "ConfigUpdate">>)
                   /\ UNCHANGED <<CONFIG_STORE, INSTANCE_STORE>>
          /\ CONFIG_UPDATES' = Append(CONFIG_UPDATES, <<s, "Resume">>) =>
                /\ \E u \in Between(s) : u.todo = 0 /\ updates' = updates (-) SetToBag({u})
                /\ BagCardinality([u \in Between(s) |-> updates[u]]) = 1]_vars

\* C19: a call of handle_config_update(s, cfg) on a service with no scaling
\* task ends with cfg stored for s in CONFIG_STORE, the pods of s brought
\* up to min (when no start failed), a scaling task stored for s, and no
\* ConfigUpdate or Resume sent.
C19_UpdateOfNewServiceStarts ==
    [][\A u \in BagToSet(updates) :
          (u.is_new_service /\ u.pc = "manage" /\ u.todo = 0
             /\ updates' = updates (-) SetToBag({u})) =>
             /\ \E k \in DOMAIN CONFIG_STORE' :
                   CONFIG_STORE'[k].config = u.config
             /\ failures = 0 =>
                   Cardinality(PodsOf(INSTANCE_STORE', u.svc)) >= u.config.min
             /\ NameKey(u.svc) \in DOMAIN SCALING_TASKS'
             /\ \A i \in 1..Len(CONFIG_UPDATES') : CONFIG_UPDATES'[i][1] # u.svc]_vars

\* C20: a call of handle_config_update whose config fails validation sends
\* no message, spawns and aborts no task and leaves CONFIG_STORE and
\* INSTANCE_STORE as they were.
C20_RejectedUpdateChangesNothing ==
    [][(nUpdates' = nUpdates + 1 /\ updates' = updates) =>
          UNCHANGED <<CONFIG_UPDATES, CONFIG_STORE, INSTANCE_STORE, SCALING_TASKS,
                      IMAGE_CHECK_TASKS, detached, cleanups>>]_vars

\* the one call made on the running service was rejected
C20_Witness ==
    /\ nUpdates = MaxUpdates
    /\ updates = EmptyBag
    /\ CONFIG_UPDATES = <<>>
    /\ NameKey("A") \in DOMAIN SCALING_TASKS
    /\ \A k \in DOMAIN SCALING_TASKS : SCALING_TASKS[k].origin = Startup
    /\ PodsOf(INSTANCE_STORE, "A") # {}

\* C21: no task holds a write lock or write guard on a store while a
\* Runtime Adapter call it made is in flight.
C21_NoGuardAcrossRuntimeCall ==
    \A c \in DOMAIN calls :
        RuntimeCall(calls[c]) # "none" => WriteGuards(calls[c]) = {}

\* the place of each store in the acquisition order the stores are to be locked in
Rank(store) ==
    CASE store = "CONFIG_STORE" -> 1
      [] store = "INSTANCE_STORE" -> 2
      [] store \in {"SCALING_TASKS", "IMAGE_CHECK_TASKS"} -> 3
      [] store = "SERVER_BACKENDS" -> 4
      [] store = "CONTAINER_HEALTH" -> 5

\* the tasks of S all wait for a lock that a task of S holds
WaitCycle(S) == S # {} /\ \A t \in S : WaitsFor(t) \cap S # {}

\* C22: a task that holds locks on two stores at once took them in the
\* order config, instances, tasks, backends, health, and no interleaving of
\* the handlers reaches a state where tasks wait for each other's store
\* locks in a cycle.
C22_LockOrderNoCycle ==
    /\ \A t \in DOMAIN calls :
          \A i, j \in 1..Len(Held(t)) :
             i < j => Rank(Held(t)[i][2]) < Rank(Held(t)[j][2])
    /\ \A S \in SUBSET DOMAIN calls : ~WaitCycle(S)

\* a task waits for the INSTANCE_STORE guard another task holds over a
\* Runtime Adapter call
C22_Witness ==
    \E t \in DOMAIN calls : \E o \in WaitsFor(t) :
        /\ calls[t].prog[calls[t].at][2] = "INSTANCE_STORE"
        /\ calls[o].prog[calls[o].at] = Await
        /\ Len(Held(o)) = 1

\* C23: for every valid service name s, pod number n in 0..255, container
\* spec name c and uuid u, parse_container_name applied to the name that
\* generate_runtime_name(s, n, u) produces for container c succeeds and
\* returns exactly (s, n, c, u).
C23_RuntimeNameRoundTrip ==
    calls[1].pc = "parsed" =>
       /\ calls[1].runtime_name.ok
       /\ calls[1].parts.ok
       /\ calls[1].parts.value =
             [service_name |-> calls[1].in.service_name,
              pod_number |-> calls[1].in.pod_number,
              container_name |-> calls[1].in.name,
              uuid |-> calls[1].in.uuid]

\* C24: after a service is stopped by the watcher (stop_service then
\* clean_up), CONTAINER_STATS has no entry for any container of the service
\* and SERVICE_STATS has no entry for the service.
C24_StopPurgesStats ==
    [][\A s \in Names :
          Finishes(s) =>
             /\ \A n \in DOMAIN CONTAINER_STATS' : n[1] # s
             /\ s \notin DOMAIN SERVICE_STATS']_vars

C26_OnlyYamlPathsChangeStores ==
    [][/\ (calls[1].pc = "raw" /\ calls'[1].pc = "received") =>
             (queue' # queue <=>
                 /\ \E i \in 1..Len(calls[1].event.paths) :
                       IsYaml(extension(FileOf(calls[1].event.paths[i])))
                 /\ calls[1].event.kind \in {"Create", "Modify", "Remove"})
       /\ (/\ calls[1].pc = "received" /\ calls'[1].at # calls[1].at
           /\ Head(queue).kind \in {"Create", "Modify"}
           /\ stores' # stores) =>
             IsYaml(extension(FileOf(Head(queue).paths[calls[1].at])))]_vars

\* the digits of a numeral, and how many of them follow the point
NumeralDigits(text) == SelectSeq(text, IsDigit)

NumeralScale(text) ==
    IF \E i \in 1..Len(text) : text[i] = "."
    THEN Len(text) - (CHOOSE i \in 1..Len(text) : text[i] = ".")
    ELSE 0

\* the whole part of numeral * factor, in exact arithmetic
ExactProduct(text, factor) ==
    DivPow10(Mul(BigDecimal(NumeralDigits(text)), factor), NumeralScale(text)).q

\* digits, then possibly a point and further digits
MemoryNumeral(text) ==
    /\ text # <<>> /\ IsDigit(text[1])
    /\ \A i \in 1..Len(text) : IsDigit(text[i]) \/ text[i] = "."
    /\ Cardinality({ i \in 1..Len(text) : text[i] = "." }) <= 1

MemoryUnit(unit) ==
    IF unit \in {<<"K">>, <<"K", "i">>} THEN Big(1024)
    ELSE IF unit \in {<<"M">>, <<"M", "i">>} THEN Big(1024 * 1024)
    ELSE IF unit \in {<<"G">>, <<"G", "i">>} THEN Big(1024 * 1024 * 1024)
    ELSE <<>>

\* C27: parse_memory_limit gives bytes with binary multipliers: a number
\* followed by K or Ki is multiplied by 1024, by M or Mi by 1024^2, by G or
\* Gi by 1024^3, a bare number counts GiB ("1Gi", "1G" and 1 all give
\* 1073741824), and a string of any other shape is an error.
C27_MemoryLimitBinaryUnits ==
    (calls[1].pc = "done" /\ calls[1].fn = "memory_limit") =>
       LET in == calls[1].in
           out == calls[1].out
           cuts == { n \in 1..(Len(in.text) - 1) :
                       /\ MemoryNumeral(SubSeq(in.text, 1, n))
                       /\ MemoryUnit(SubSeq(in.text, n + 1, Len(in.text))) # <<>> }
       IN /\ (in.type = "String" /\ cuts # {}) =>
                \A n \in cuts :
                   out = Ok(ExactProduct(SubSeq(in.text, 1, n),
                                         MemoryUnit(SubSeq(in.text, n + 1, Len(in.text)))))
          /\ (in.type = "String" /\ cuts = {}) => out = Err
          /\ (in.type = "Number" /\ in.text[1] # "-") =>
                out = Ok(ExactProduct(in.text, Big(1024 * 1024 * 1024)))
          /\ (in.text \in {<<"1", "G", "i">>, <<"1", "G">>}
                 \/ (in.type = "Number" /\ in.text = <<"1">>)) =>
                out = Ok(Big(1073741824))

C27_Witness ==
    /\ calls[1].pc = "done" /\ calls[1].fn = "memory_limit"
    /\ calls[1].in = [type |-> "String", text |-> <<"1", ".", "M">>]
    /\ calls[1].out = Ok(Big(1048576))

\* C28: parse_cpu_limit gives the number of cores times 10^9, for a string
\* and for a number alike ("0.5" gives 500000000, 2 gives 2000000000).
C28_CpuLimitNanocpus ==
    (/\ calls[1].pc = "done" /\ calls[1].fn = "cpu_limit"
     /\ calls[1].in.type \in {"String", "Number"}
     /\ IsNumberLiteral(calls[1].in.text) /\ calls[1].in.text[1] # "-"
     /\ BigDecimal(NumeralDigits(calls[1].in.text)) # <<>>) =>
        calls[1].out = Ok(ExactProduct(calls[1].in.text, Big(1000000000)))

\* C29: the first sample of a container (CONTAINER_STATS holds no entry for
\* it) has cpu_percentage 0, cpu_percentage_relative 0 and network rates 0,
\* and so has the first sample after the container's stats were removed.
C29_FirstSampleZero ==
    [][(/\ calls'[1].n = calls[1].n + 1
        /\ calls'[1].name \notin DOMAIN CONTAINER_STATS) =>
          /\ calls'[1].out.value.cpu_percentage = f64_zero
          /\ calls'[1].out.value.cpu_percentage_relative = f64_zero
          /\ calls'[1].out.value.network_rx_rate = f64_zero
          /\ calls'[1].out.value.network_tx_rate = f64_zero]_vars

C29_Witness ==
    /\ calls[1].pc = "sampled" /\ calls[1].removed /\ ~calls[1].previous.ok
    /\ calls[1].in.cpu_total > 0 /\ calls[1].in.system_cpu > 0 /\ calls[1].in.networks.ok
    /\ calls[1].out.value.cpu_percentage = f64_zero
    /\ calls[1].out.value.network_rx_rate = f64_zero

\* x and y differ by less than 2^-20
F64Near(x, y) ==
    LET d == f64_sub(x, y)
    IN d.m = <<>> \/ f64_lt([d EXCEPT !.neg = FALSE], [neg |-> FALSE, m |-> <<1>>, e |-> 0 - 20])

\* the CPU use between the previous sample and this one, in cores, as a
\* percentage of the allocated cores, clamped to [0, 100]
PercentOfAllocation(call) ==
    LET cpu_delta == call.in.cpu_total - call.previous.value.cpu_total_usage
        system_delta == call.in.system_cpu - call.previous.value.system_cpu_usage
        used == Mul(Big(100 * cpu_delta * call.in.online_cpus), Big(1000000000))
        allocated == Mul(Big(system_delta), Big(call.nano_cpus.value))
    IN IF cpu_delta <= 0 THEN f64_zero
       ELSE IF ~Less(used, Mul(allocated, Big(100))) THEN f64_100
       ELSE f64_div(f64_from_u64(used), f64_from_u64(allocated))

\* C30: for a sample that is not the first and has a positive system CPU
\* delta, cpu_percentage is in [0, 100]; with a cpu_limit,
\* cpu_percentage_relative is the CPU use as a percentage of the allocated
\* cores clamped to [0, 100] (half of the allocation reads 50); without one
\* it equals cpu_percentage.
C30_CpuPercentages ==
    (/\ calls[1].pc = "sampled" /\ calls[1].previous.ok
     /\ calls[1].in.system_cpu > calls[1].previous.value.system_cpu_usage) =>
        LET out == calls[1].out.value IN
        /\ ~f64_lt(out.cpu_percentage, f64_zero)
        /\ ~f64_lt(f64_100, out.cpu_percentage)
        /\ (calls[1].nano_cpus.ok /\ calls[1].nano_cpus.value > 0) =>
              F64Near(out.cpu_percentage_relative, PercentOfAllocation(calls[1]))
        /\ ~calls[1].nano_cpus.ok => out.cpu_percentage_relative = out.cpu_percentage

\* x is the greatest of the values: none is greater and one equals it
F64Greatest(x, values) ==
    /\ \A v \in values : ~f64_lt(x, v)
    /\ \E v \in values : ~f64_lt(v, x)

RECURSIVE F64Sum(_)
F64Sum(values) ==
    IF values = <<>> THEN f64_zero
    ELSE f64_add(F64Sum(Tail(values)), Head(values))

RECURSIVE NatSum(_)
NatSum(values) == IF values = <<>> THEN 0 ELSE Head(values) + NatSum(Tail(values))

\* x is the mean of the values: count * x is their sum
F64Mean(x, values) ==
    F64Near(f64_mul(x, f64_from_u64(Big(Len(values)))), F64Sum(values))

\* n is the mean of the values, as far as an unsigned integer can hold it
NatMean(n, values) ==
    /\ Len(values) * n <= NatSum(values)
    /\ NatSum(values) < Len(values) * (n + 1)

\* C31: for the containers of a pod, aggregate_pod_stats with Maximum gives
\* for cpu_percentage, cpu_percentage_relative, memory_usage and memory_limit
\* the maximum of the field over the containers, and with Average the mean
\* of the field over the containers.
C31_AggregateMaximumAndAverage ==
    (calls[1].pc # "aggregate" /\ calls[1].in # <<>>) =>
       LET in == calls[1].in
           at == DOMAIN in
           out == calls[1].out
       IN /\ out.ok
          /\ calls[1].strategy = "Maximum" =>
                /\ F64Greatest(out.value.cpu_percentage,
                               { in[i].cpu_percentage : i \in at })
                /\ F64Greatest(out.value.cpu_percentage_relative,
                               { in[i].cpu_percentage_relative : i \in at })
                /\ out.value.memory_usage \in { in[i].memory_usage : i \in at }
                /\ \A i \in at : in[i].memory_usage <= out.value.memory_usage
                /\ out.value.memory_limit \in { in[i].memory_limit : i \in at }
                /\ \A i \in at : in[i].memory_limit <= out.value.memory_limit
          /\ calls[1].strategy = "Average" =>
                /\ F64Mean(out.value.cpu_percentage,
                           [i \in at |-> in[i].cpu_percentage])
                /\ F64Mean(out.value.cpu_percentage_relative,
                           [i \in at |-> in[i].cpu_percentage_relative])
                /\ NatMean(out.value.memory_usage, [i \in at |-> in[i].memory_usage])
                /\ NatMean(out.value.memory_limit, [i \in at |-> in[i].memory_limit])

\* two containers that differ in every field, averaged
C31_Witness ==
    /\ calls[1].pc = "done" /\ calls[1].strategy = "Average" /\ Len(calls[1].in) = 2
    /\ f64_lt(calls[1].in[1].cpu_percentage, calls[1].in[2].cpu_percentage)
    /\ calls[1].in[1].memory_usage # calls[1].in[2].memory_usage
    /\ calls[1].in[1].memory_limit # calls[1].in[2].memory_limit
    /\ f64_lt(calls[1].in[1].cpu_percentage, calls[1].out.value.cpu_percentage)
    /\ f64_lt(calls[1].out.value.cpu_percentage, calls[1].in[2].cpu_percentage)

\* C39: for a pod with no container stats, aggregate_pod_stats returns a
\* PodStats under Maximum and under Average, with zero in all four fields.
C39_AggregateOfNothingIsZero ==
    (calls[1].pc # "aggregate" /\ calls[1].in = <<>>) =>
       /\ calls[1].out.ok
       /\ calls[1].out.value.cpu_percentage = f64_zero
       /\ calls[1].out.value.cpu_percentage_relative = f64_zero
       /\ calls[1].out.value.memory_usage = 0
       /\ calls[1].out.value.memory_limit = 0

RECURSIVE StripZeros(_)
StripZeros(digits) ==
    IF Len(digits) > 1 /\ digits[1] = "0" THEN StripZeros(Tail(digits)) ELSE digits

DecimalU8(text) ==
    LET digits == IF text # <<>> /\ text[1] = "+" THEN Tail(text) ELSE text
    IN \E n \in 0..(U8 - 1) : StripZeros(digits) = to_string(n)

\* C33: parse_container_name returns an error for every name that does not
\* split on "__" into exactly four segments, for every name whose second
\* segment is not a decimal integer in 0..255 and for every name whose
\* fourth segment is not a valid UUID, and Ok for every other name.
C33_ParseContainerNameErrors ==
    calls[1].pc = "parsed" =>
       LET parts == split(calls[1].in) IN
       calls[1].parts.ok <=> (/\ Len(parts) = 4
                              /\ DecimalU8(parts[2])
                              /\ parts[4] \in UuidTexts)

\* a name of four segments refused for its pod number alone, 256
C33_Witness ==
    /\ calls[1].pc = "parsed" /\ ~calls[1].parts.ok
    /\ Len(split(calls[1].in)) = 4
    /\ split(calls[1].in)[2] = <<"2", "5", "6">>
    /\ split(calls[1].in)[4] \in UuidTexts

\* the call c of manage takes the Err arm of start_containers
StartFails(c) ==
    /\ c \in DOMAIN calls /\ c \in DOMAIN calls'
    /\ calls[c].pc = "start" /\ calls'[c].failed = calls[c].failed + 1

\* C34: when start_containers fails for a new pod inside manage, the uuid
\* drawn for the pod is discarded: no entry is inserted under it, the
\* entries of the other pods stay as they are, manage goes on with the
\* pod starts that remain, and the next of them draws another uuid.
C34_FailedStartDiscardsUuid ==
    [][\A c \in DOMAIN calls :
          /\ StartFails(c) =>
                /\ INSTANCE_STORE' = INSTANCE_STORE
                /\ \A s \in DOMAIN INSTANCE_STORE' :
                      calls[c].uuid \notin DOMAIN INSTANCE_STORE'[s]
                /\ calls'[c].todo = calls[c].todo - 1
                /\ calls'[c].pc = IF calls[c].todo > 1 THEN "number" ELSE "done"
          /\ (calls[c].pc = "number" /\ calls'[c].pc = "start") =>
                /\ calls'[c].uuid # calls[c].uuid
                /\ \A s \in DOMAIN INSTANCE_STORE :
                      calls'[c].uuid \notin DOMAIN INSTANCE_STORE[s]]_vars

\* one start of a call failed and its other start stored a pod, next to a
\* pod of another call
C34_Witness ==
    /\ calls[1].pc = "done" /\ calls[1].attempts = 2 /\ calls[1].failed = 1
    /\ calls[1].uuid \in DOMAIN InstancesOf(Svc)
    /\ \E u \in DOMAIN InstancesOf(Svc) : u # calls[1].uuid

\* the pods a step of the cleanup task c asks the runtime to stop
StopsIssued(c) ==
    IF c.pc \in {"stop_instances", "clean_instances"} /\ Acts(c)
    THEN Nets(PodsOf(INSTANCE_STORE, c.svc)) ELSE {}

\* C35: service cleanup is idempotent: once stop_service(s) and clean_up(s)
\* have run, a second run of them for s, begun before or after the end of
\* the first, leaves every store as the first left it and issues no further
\* stop_container or remove_pod_network call; no pod is stopped twice.
C35_CleanupIdempotent ==
    [][/\ BagCardinality(cleanups) = 1 =>
             /\ UNCHANGED <<CONFIG_STORE, INSTANCE_STORE, SCALING_TASKS,
                            IMAGE_CHECK_TASKS, SERVER_BACKENDS, CONTAINER_STATS,
                            SERVICE_STATS>>
             /\ UNCHANGED <<running, networks, stopCalls, netCalls>>
       /\ \A c \in BagToSet(cleanups) : StopsIssued(c) \cap stopCalls = {}]_vars

\* both runs are over; the first stopped two pods, one of which did not stop
C35_Witness ==
    /\ cleanups = EmptyBag
    /\ Cardinality(stopCalls) = MaxStopPods
    /\ stopCalls \cap running # {}
    /\ SERVER_BACKENDS # Empty

\* the manifest in file f is valid: it parses, and no other manifest of the
\* directory carries its service name
ValidManifest(f) ==
    /\ fs[f] \in Configs
    /\ \A g \in StartupFiles \ {f} : fs[g] = Bad \/ fs[g].name # fs[f].name

\* C36: when initialize_configs has returned, also after a manifest that
\* failed to parse or validate or a runtime error while the orphans of a
\* service were listed, every valid manifest of the directory is stored in
\* CONFIG_STORE and its service has its pods, its scaling task and its
\* image-check task.
C36_StartupFailuresAreIsolated ==
    calls[1].pc = "returned" =>
       \A f \in StartupFiles :
          ValidManifest(f) =>
             /\ DirEntryPath(config_dir, f) \in DOMAIN CONFIG_STORE
             /\ Cardinality(PodsOf(INSTANCE_STORE, fs[f].name))
                   >= fs[f].min - calls[1].start_failed
             /\ NameKey(fs[f].name) \in DOMAIN SCALING_TASKS
             /\ fs[f].name \in DOMAIN IMAGE_CHECK_TASKS

\* C37: get_next_pod_number always returns a value in 0..255 that is not
\* the pod number of an existing container of the service, also when a
\* container with pod number 255 exists: max + 1 neither overflows the u8
\* nor wraps to a number in use.
C37_NextPodNumberFree ==
    [][\A c \in DOMAIN calls :
          (calls[c].pc = "number" /\ calls'[c].pc # "number") =>
             /\ calls'[c].pc # "panicked"
             /\ calls'[c].pod_number \in 0..(U8 - 1)
             /\ calls'[c].pod_number \notin PodNumbersOf(calls[c].config.name)]_vars

\* the numeral is zero or negative
NotPositive(text) == text[1] = "-" \/ BigDecimal(NumeralDigits(text)) = <<>>

\* C38: parse_cpu_limit treats a string and a number that encode the same
\* core count alike: both give the same nanocpus or both are rejected; zero
\* and negative core counts are rejected in both forms.
C38_CpuLimitStringLikeNumber ==
    (/\ calls[1].pc = "done" /\ calls[1].fn = "cpu_limit"
     /\ calls[1].in.type \in {"String", "Number"}
     /\ IsNumberLiteral(calls[1].in.text)) =>
        /\ calls[1].out = parse_cpu_limit([type |-> "Number", text |-> calls[1].in.text])
        /\ calls[1].out = parse_cpu_limit([type |-> "String", text |-> calls[1].in.text])
        /\ NotPositive(calls[1].in.text) => calls[1].out = Err

====
